---- MODULE Spec2Model ----
(***************************************************************************)
(* A model of the security-and-concurrency kernel of the sandboxed file    *)
(* manager: resolve_secure_path (src/core/security.py), LockManager        *)
(* (src/core/locking.py) and FileManager.write_file / FileManager.move     *)
(* (src/files/manager.py).                                                 *)
(*                                                                         *)
(* A string is a sequence of one-character strings, so that the textual    *)
(* prefix test of resolve_secure_path is a test on characters.  A Path     *)
(* object is the sequence of its segments (each a string) below "/".       *)
(***************************************************************************)
EXTENDS Integers, Sequences, FiniteSets, TLC

\* ------------------------------------------------------------------ bounds
\* longest caller-supplied path, counted in "/"-separated segments
MaxSegs == 5
\* number of concurrent engine calls
NumCalls == 2

\* ----------------------------------------------------------------- strings
Sep == "/"
Dot == <<".">>
DotDot == <<".", ".">>

\* the segment names a caller-supplied path is built from
SegNames == { <<>>, Dot, DotDot, <<"a">>, <<"s", "2">> }

\* config.SANDBOX_ROOT, an absolute resolved directory: "/s"
SANDBOX_ROOT == << <<"s">> >>

RECURSIVE SplitAcc(_, _, _, _)
SplitAcc(s, i, cur, acc) ==
    IF i > Len(s) THEN Append(acc, cur)
    ELSE IF s[i] = Sep THEN SplitAcc(s, i + 1, <<>>, Append(acc, cur))
    ELSE SplitAcc(s, i + 1, Append(cur, s[i]), acc)

\* str.split('/')
Split(s) == SplitAcc(s, 1, <<>>, <<>>)

RECURSIVE JoinSep(_)
\* '/'.join(comps)
JoinSep(comps) ==
    IF comps = <<>> THEN <<>>
    ELSE IF Len(comps) = 1 THEN comps[1]
    ELSE comps[1] \o <<Sep>> \o JoinSep(Tail(comps))

\* str.startswith
startswith(s, prefix) ==
    /\ Len(prefix) <= Len(s)
    /\ SubSeq(s, 1, Len(prefix)) = prefix

RECURSIVE lstripSep(_)
\* str.lstrip(os.path.sep)
lstripSep(s) ==
    IF s # <<>> /\ Head(s) = Sep THEN lstripSep(Tail(s)) ELSE s

RECURSIVE NormComps(_, _, _)
\* the component loop of posixpath.normpath
NormComps(comps, initial_slashes, new_comps) ==
    IF comps = <<>> THEN new_comps
    ELSE LET comp == Head(comps) IN
         IF comp = <<>> \/ comp = Dot
           THEN NormComps(Tail(comps), initial_slashes, new_comps)
         ELSE IF \/ comp # DotDot
                 \/ (initial_slashes = 0 /\ new_comps = <<>>)
                 \/ (new_comps # <<>> /\ new_comps[Len(new_comps)] = DotDot)
           THEN NormComps(Tail(comps), initial_slashes, Append(new_comps, comp))
         ELSE IF new_comps # <<>>
           THEN NormComps(Tail(comps), initial_slashes,
                          SubSeq(new_comps, 1, Len(new_comps) - 1))
         ELSE NormComps(Tail(comps), initial_slashes, new_comps)

\* os.path.normpath (POSIX)
normpath(path) ==
    IF path = <<>> THEN Dot
    ELSE LET initial_slashes ==
                 IF ~startswith(path, <<Sep>>) THEN 0
                 ELSE IF startswith(path, <<Sep, Sep>>)
                         /\ ~startswith(path, <<Sep, Sep, Sep>>) THEN 2
                 ELSE 1
             comps == NormComps(Split(path), initial_slashes, <<>>)
             joined == [i \in 1..initial_slashes |-> Sep] \o JoinSep(comps)
         IN  IF joined = <<>> THEN Dot ELSE joined

\* ---------------------------------------------------------------- pathlib
RECURSIVE ParseParts(_)
\* the parts pathlib keeps of a string: empty and "." segments are dropped
ParseParts(comps) ==
    IF comps = <<>> THEN <<>>
    ELSE IF Head(comps) = <<>> \/ Head(comps) = Dot THEN ParseParts(Tail(comps))
    ELSE <<Head(comps)>> \o ParseParts(Tail(comps))

\* base_path / other: an absolute right operand replaces the left one
PathJoin(base, other) ==
    IF startswith(other, <<Sep>>) THEN ParseParts(Split(other))
    ELSE base \o ParseParts(Split(other))

\* str(Path) of an absolute path
PathStr(p) == <<Sep>> \o JoinSep(p)

\* the symbolic links of the file system: [from |-> path, to |-> path]
NoLinks == {}
LinkInside == { [from |-> << <<"s">>, <<"a">> >>, to |-> << <<"s">>, <<"s", "2">> >>] }
LinkSibling == { [from |-> << <<"s">>, <<"a">> >>, to |-> << <<"s", "2">> >>] }
LinkOutside == { [from |-> << <<"s">>, <<"a">> >>, to |-> << <<"a">> >>] }
LinkConfigs == { NoLinks, LinkInside, LinkSibling, LinkOutside }

RECURSIVE RealWalk(_, _, _)
\* Path.resolve(): walk the parts from "/", following symbolic links
RealWalk(cur, rest, lk) ==
    IF rest = <<>> THEN cur
    ELSE LET name == Head(rest) IN
         IF name = DotDot
           THEN RealWalk(IF cur = <<>> THEN cur ELSE SubSeq(cur, 1, Len(cur) - 1),
                         Tail(rest), lk)
         ELSE LET newpath == Append(cur, name) IN
              IF \E l \in lk : l.from = newpath
                THEN RealWalk(<<>>,
                              (CHOOSE l \in lk : l.from = newpath).to \o Tail(rest), lk)
                ELSE RealWalk(newpath, Tail(rest), lk)

PathResolve(p, lk) == RealWalk(<<>>, p, lk)

\* --------------------------------------------------- resolve_secure_path
PermissionError == "PermissionError"

\* a returned Path, or the exception a call raised
Returned(p) == [err |-> "none", path |-> p]
Raised(e) == [err |-> e, path |-> <<>>]

\* a resolver that returns the joined path without the containment test
resolve_secure_path_unchecked(relative_path, base_path, lk) ==
    Returned(PathResolve(PathJoin(base_path, lstripSep(normpath(relative_path))), lk))

resolve_secure_path(relative_path, base_path, lk) ==
    LET normalized0 == normpath(relative_path)
        normalized == IF (\E i \in 1..Len(normalized0) : normalized0[i] = Sep)
                         /\ startswith(normalized0, <<Sep>>)
                        THEN lstripSep(normalized0) ELSE normalized0
        full_path == PathResolve(PathJoin(base_path, normalized), lk)
        base_resolved == PathResolve(base_path, lk)
    IN  IF ~startswith(PathStr(full_path), PathStr(base_resolved))
          THEN Raised(PermissionError)
          ELSE Returned(full_path)

\* --------------------------------------------------------------- inputs
RECURSIVE SegSeqs(_)
SegSeqs(n) ==
    IF n = 0 THEN { <<>> }
    ELSE LET shorter == SegSeqs(n - 1) IN
         shorter \cup { Append(q, g) : q \in { r \in shorter : Len(r) = n - 1 },
                                       g \in SegNames }

\* every string of at most MaxSegs segments over SegNames
PathStrings == { JoinSep(q) : q \in SegSeqs(MaxSegs) }

\* ----------------------------------------------------------- sorted()
\* code points of the characters that occur in paths
ord(ch) ==
    CASE ch = "." -> 46 [] ch = "/" -> 47 [] ch = "2" -> 50
      [] ch = "a" -> 97 [] ch = "b" -> 98 [] ch = "c" -> 99
      [] ch = "m" -> 109 [] ch = "p" -> 112 [] ch = "s" -> 115
      [] ch = "t" -> 116

RECURSIVE StrLess(_, _)
\* x < y on strings
StrLess(x, y) ==
    IF y = <<>> THEN FALSE
    ELSE IF x = <<>> THEN TRUE
    ELSE IF ord(Head(x)) # ord(Head(y)) THEN ord(Head(x)) < ord(Head(y))
    ELSE StrLess(Tail(x), Tail(y))

RECURSIVE InsertSorted(_, _)
InsertSorted(x, seq) ==
    IF seq = <<>> THEN <<x>>
    ELSE IF StrLess(x, Head(seq)) THEN <<x>> \o seq
    ELSE <<Head(seq)>> \o InsertSorted(x, Tail(seq))

\* a multi-lock call that keeps the caller's order
sorted_unsorted(seq) == seq

RECURSIVE sorted(_)
\* sorted(list of str): ascending, stable
sorted(seq) ==
    IF seq = <<>> THEN <<>>
    ELSE InsertSorted(seq[Len(seq)], sorted(SubSeq(seq, 1, Len(seq) - 1)))

\* reversed() that keeps the order
reversed_kept(seq) == seq

RECURSIVE reversed(_)
\* reversed(list)
reversed(seq) ==
    IF seq = <<>> THEN <<>> ELSE Append(reversed(Tail(seq)), Head(seq))

\* ------------------------------------------------------------ LockManager
\* LockManager._get_lock_key: str(Path(path).resolve())
get_lock_key(path, lk) == PathStr(PathResolve(path, lk))

\* a fresh asyncio.Lock(); holder names the call that has it locked (0: none)
NewLock == [locked |-> FALSE, waiters |-> <<>>, holder |-> 0]

\* the lock table forgets a lock that is already there
get_lock_always_new(reg, key) ==
    [k \in DOMAIN reg \cup {key} |-> IF k = key THEN NewLock ELSE reg[k]]

\* LockManager._get_lock: insert the key's lock on first reference
get_lock(reg, key) ==
    [k \in DOMAIN reg \cup {key} |-> IF k \in DOMAIN reg THEN reg[k] ELSE NewLock]

\* asyncio.Lock.acquire takes the lock at once only when it is unlocked and
\* nobody is queued for it
CanAcquire(l) == ~l.locked /\ l.waiters = <<>>

RECURSIVE ReleaseAll(_, _)
\* lock.release() for each key of ks, in that order
ReleaseAll(reg, ks) ==
    IF ks = <<>> THEN reg
    ELSE ReleaseAll([reg EXCEPT ![Head(ks)] = [@ EXCEPT !.locked = FALSE, !.holder = 0]],
                    Tail(ks))

\* a finally clause that forgets the locks when the body raised
finally_release_on_success(lks, raised) == IF raised THEN <<>> ELSE reversed(lks)
\* a finally clause that releases in acquisition order
finally_release_forward(lks, raised) == lks

\* the locks the finally clauses of execute_locked / execute_locked_multi
\* release, in order: everything acquired, latest first
finally_release(lks, raised) == reversed(lks)

\* the waiter queue without the call x
RemoveWaiter(seq, x) == SelectSeq(seq, LAMBDA y : y # x)

\* ------------------------------------------------------------------ state
VARIABLES
    links,          \* the symbolic links present in the file system
    relative_path,  \* the string handed to resolve_secure_path
    resolved,       \* what resolve_secure_path returned for it
    reresolved,     \* what it returned for str(resolved)
    rpc,            \* position of the resolving caller
    pc,             \* position of each call
    op,             \* what each call was called with
    sorted_paths,   \* the keys each call acquires, in order
    locks,          \* the keys each call has acquired (the local list `locks`)
    released,       \* the keys each call has released, in order
    result,         \* how each call ended
    ran,            \* whether the operation body of the call was started
    lock_table,     \* LockManager._locks: key -> lock
    fs,             \* the file system: path -> node, for the paths that exist
    meta,           \* what the metadata collaborator has recorded
    touched,        \* whether the call has changed the file system
    before,         \* target and staging path as the body of the call found them
    after,          \* target and staging path as the call left them
    returned,       \* what each call returned: a content, or a list of records
    infolist,       \* the entries of the archive handed to validate_zip_file
    validation,     \* what validate_zip_file made of them
    given_name,     \* the name handed to validate_filename
    name_result     \* what validate_filename made of it

nvars == <<given_name, name_result>>
rvars == <<links, relative_path, resolved, reresolved, rpc, nvars>>
cvars == <<pc, op, sorted_paths, locks, released, result, ran>>
fvars == <<fs, meta, touched, before, after>>
xvars == <<returned, infolist, validation>>
vars == <<rvars, cvars, lock_table, fvars, xvars>>

Calls == 1..NumCalls

NotYet == Raised("NotYet")
NoOp ==
    [name |-> "none", rel |-> <<>>, paths |-> <<>>, content |-> <<>>, append |-> FALSE,
     recursive |-> FALSE]

\* ------------------------------------------------------------ file system
File(content) == [kind |-> "file", content |-> content]
Dir == [kind |-> "dir", content |-> <<>>]
Absent == [kind |-> "absent", content |-> <<>>]

\* Path.exists(), Path.is_file(), Path.is_dir()
exists(f, p) == p \in DOMAIN f
is_file(f, p) == exists(f, p) /\ f[p].kind = "file"
is_dir(f, p) == exists(f, p) /\ f[p].kind = "dir"

NodeAt(f, p) == IF exists(f, p) THEN f[p] ELSE Absent
Put(f, p, node) == [q \in DOMAIN f \cup {p} |-> IF q = p THEN node ELSE f[q]]
\* Path.unlink()
unlink(f, p) == [q \in DOMAIN f \ {p} |-> f[q]]

\* q is p or lies below it
Under(q, p) == Len(q) >= Len(p) /\ SubSeq(q, 1, Len(p)) = p
\* Path.parent and Path.name
parent(p) == SubSeq(p, 1, Len(p) - 1)
name(p) == IF p = <<>> THEN <<>> ELSE p[Len(p)]
\* Path.iterdir(): the paths directly below p
iterdir(f, p) == { q \in DOMAIN f : Len(q) = Len(p) + 1 /\ Under(q, p) }
\* shutil.rmtree(p): p and all below it go
rmtree(f, p) == [q \in { r \in DOMAIN f : ~Under(r, p) } |-> f[q]]

NoSnapshot == [target |-> Absent, temp |-> Absent]

\* no call has been made and no lock exists
InitCalls ==
    /\ pc = [c \in Calls |-> "idle"]
    /\ op = [c \in Calls |-> NoOp]
    /\ sorted_paths = [c \in Calls |-> <<>>]
    /\ locks = [c \in Calls |-> <<>>]
    /\ released = [c \in Calls |-> <<>>]
    /\ result = [c \in Calls |-> "none"]
    /\ ran = [c \in Calls |-> FALSE]
    /\ lock_table = << >>

\* only the sandbox root exists and nothing has been recorded
InitNoFiles ==
    /\ fs = [p \in {SANDBOX_ROOT} |-> Dir]
    /\ meta = <<>>
    /\ touched = [c \in Calls |-> FALSE]
    /\ before = [c \in Calls |-> NoSnapshot]
    /\ after = [c \in Calls |-> NoSnapshot]

\* nothing has been returned and no archive has been validated
InitNoResults ==
    /\ returned = [c \in Calls |-> <<>>]
    /\ infolist = <<>>
    /\ validation = NotYet

InitNoResolve ==
    /\ given_name = <<>>
    /\ name_result = NotYet
    /\ relative_path = <<>>
    /\ resolved = NotYet
    /\ reresolved = NotYet
    /\ rpc = "idle"

\* ------------------------------------------------- resolving a path string
InitResolve ==
    /\ links \in LinkConfigs
    /\ InitNoResolve
    /\ InitCalls
    /\ InitNoFiles
    /\ InitNoResults

\* a caller resolves a path string against the sandbox root
Resolve(p) ==
    /\ rpc = "idle"
    /\ relative_path' = p
    /\ resolved' = resolve_secure_path(p, SANDBOX_ROOT, links)
    /\ rpc' = "resolved"
    /\ UNCHANGED <<links, reresolved, nvars, cvars, lock_table, fvars, xvars>>

\* safe_extract_zip / safe_create_zip resolve the string of a path that
\* resolve_secure_path has already returned
ReResolve ==
    /\ rpc = "resolved"
    /\ resolved.err = "none"
    /\ reresolved' = resolve_secure_path(PathStr(resolved.path), SANDBOX_ROOT, links)
    /\ rpc' = "reresolved"
    /\ UNCHANGED <<links, relative_path, resolved, nvars, cvars, lock_table, fvars, xvars>>

NextResolve ==
    \/ rpc = "idle" /\ \E p \in PathStrings : Resolve(p)
    \/ ReResolve

SpecResolve == InitResolve /\ [][NextResolve]_vars

\* ------------------------------------------------ calls of the LockManager
PathA == << <<"s">>, <<"a">> >>
PathB == << <<"s">>, <<"b">> >>
PathC == << <<"s">>, <<"c">> >>

\* the paths callers hand to execute_locked and execute_locked_multi
SinglePaths == { PathA, PathC }
MultiPaths == { <<PathA, PathB>>, <<PathB, PathA>>, <<PathC, PathB, PathA>> }

ResourceBusy == "TimeoutError"

\* calls are numbered in the order in which they are made
IsNextCall(c) == pc[c] = "idle" /\ \A d \in Calls : d < c => pc[d] # "idle"

\* lock_manager.execute_locked(path, operation)
CallExecuteLocked(c, path) ==
    /\ IsNextCall(c)
    /\ op' = [op EXCEPT ![c] = [NoOp EXCEPT !.name = "execute_locked", !.paths = <<path>>]]
    /\ sorted_paths' = [sorted_paths EXCEPT ![c] = <<get_lock_key(path, links)>>]
    /\ pc' = [pc EXCEPT ![c] = "get_lock"]
    /\ UNCHANGED <<rvars, locks, released, result, ran, lock_table, fvars, xvars>>

\* lock_manager.execute_locked_multi(paths, operation)
CallExecuteLockedMulti(c, paths) ==
    /\ IsNextCall(c)
    /\ op' = [op EXCEPT ![c] = [NoOp EXCEPT !.name = "execute_locked_multi", !.paths = paths]]
    /\ sorted_paths' = [sorted_paths EXCEPT ![c] =
           sorted([i \in 1..Len(paths) |-> get_lock_key(paths[i], links)])]
    /\ pc' = [pc EXCEPT ![c] = "get_lock"]
    /\ UNCHANGED <<rvars, locks, released, result, ran, lock_table, fvars, xvars>>

\* the key the call is about to acquire
NextKey(c) == sorted_paths[c][Len(locks[c]) + 1]

\* lock = await self._get_lock(path)
GetLock(c) ==
    /\ pc[c] = "get_lock"
    /\ lock_table' = get_lock(lock_table, get_lock_key(ParseParts(Split(NextKey(c))), links))
    /\ pc' = [pc EXCEPT ![c] = "acquire"]
    /\ UNCHANGED <<rvars, op, sorted_paths, locks, released, result, ran, fvars, xvars>>

\* the call has the lock of NextKey(c): go on to the next key, or to the body
Acquired(c) ==
    /\ locks' = [locks EXCEPT ![c] = Append(@, NextKey(c))]
    /\ pc' = [pc EXCEPT ![c] =
           IF Len(locks[c]) + 1 < Len(sorted_paths[c]) THEN "get_lock" ELSE "body"]

\* asyncio.wait_for(lock.acquire(), ...): the lock is free, or the call queues
Acquire(c) ==
    /\ pc[c] = "acquire"
    /\ LET k == NextKey(c) IN
       IF CanAcquire(lock_table[k])
         THEN /\ lock_table' = [lock_table EXCEPT ![k] =
                     [@ EXCEPT !.locked = TRUE, !.holder = c]]
              /\ Acquired(c)
         ELSE /\ lock_table' = [lock_table EXCEPT ![k] =
                     [@ EXCEPT !.waiters = Append(@, c)]]
              /\ pc' = [pc EXCEPT ![c] = "waiting"]
              /\ UNCHANGED locks
    /\ UNCHANGED <<rvars, op, sorted_paths, released, result, ran, fvars, xvars>>

\* the lock was released and the call is the first in its queue
WakeUp(c) ==
    /\ pc[c] = "waiting"
    /\ LET k == NextKey(c) IN
       /\ ~lock_table[k].locked
       /\ lock_table[k].waiters # <<>>
       /\ Head(lock_table[k].waiters) = c
       /\ lock_table' = [lock_table EXCEPT ![k] =
              [@ EXCEPT !.locked = TRUE, !.holder = c, !.waiters = Tail(@)]]
    /\ Acquired(c)
    /\ UNCHANGED <<rvars, op, sorted_paths, released, result, ran, fvars, xvars>>

\* the call leaves the LockManager: the finally clause releases, the call ends
Leave(c, res, raised) ==
    LET rel == finally_release(locks[c], raised) IN
    /\ lock_table' = ReleaseAll(lock_table, rel)
    /\ released' = [released EXCEPT ![c] = @ \o rel]
    /\ result' = [result EXCEPT ![c] = res]
    /\ pc' = [pc EXCEPT ![c] = "done"]

\* a timeout that is swallowed: the call goes on to its operation
AcquireTimeoutRunsOperation(c) ==
    /\ pc[c] = "waiting"
    /\ lock_table' = [lock_table EXCEPT ![NextKey(c)] =
           [@ EXCEPT !.waiters = RemoveWaiter(@, c)]]
    /\ pc' = [pc EXCEPT ![c] = "body"]
    /\ UNCHANGED <<rvars, op, sorted_paths, locks, released, result, ran, fvars, xvars>>

\* LOCK_TIMEOUT passes while the call waits: wait_for cancels the acquisition
\* and raises; the locks already taken are released and the call fails
AcquireTimeout(c) ==
    /\ pc[c] = "waiting"
    /\ LET k == NextKey(c)
           rel == finally_release(locks[c], TRUE)
           reg == [lock_table EXCEPT ![k] = [@ EXCEPT !.waiters = RemoveWaiter(@, c)]]
       IN  lock_table' = ReleaseAll(reg, rel)
    /\ released' = [released EXCEPT ![c] = @ \o finally_release(locks[c], TRUE)]
    /\ result' = [result EXCEPT ![c] = ResourceBusy]
    /\ pc' = [pc EXCEPT ![c] = "done"]
    /\ UNCHANGED <<rvars, op, sorted_paths, locks, ran, fvars, xvars>>

IsLockCall(c) == op[c].name \in {"execute_locked", "execute_locked_multi"}

\* return await operation(): the operation starts
OperationStart(c) ==
    /\ pc[c] = "body"
    /\ IsLockCall(c)
    /\ ~ran[c]
    /\ ran' = [ran EXCEPT ![c] = TRUE]
    /\ UNCHANGED <<rvars, pc, op, sorted_paths, locks, released, result, lock_table, fvars, xvars>>

\* the operation returns
OperationReturn(c) ==
    /\ pc[c] = "body"
    /\ IsLockCall(c)
    /\ ran[c]
    /\ Leave(c, "ok", FALSE)
    /\ UNCHANGED <<rvars, op, sorted_paths, locks, ran, fvars, xvars>>

\* what an operation raises: an error of its own, or the asyncio.TimeoutError
\* of a wait of its own
OperationTimeout == "asyncio.TimeoutError"
OperationErrors == { "OperationError", OperationTimeout }

\* execute_locked wraps the acquisition and the operation in one try whose
\* except asyncio.TimeoutError raises the busy error; execute_locked_multi
\* has no except clause
execute_locked_except(called, e) ==
    IF called = "execute_locked" /\ e = OperationTimeout THEN ResourceBusy ELSE e

\* the operation raises
OperationRaise(c, e) ==
    /\ pc[c] = "body"
    /\ IsLockCall(c)
    /\ ran[c]
    /\ Leave(c, execute_locked_except(op[c].name, e), TRUE)
    /\ UNCHANGED <<rvars, op, sorted_paths, locks, ran, fvars, xvars>>

InitLock ==
    /\ links = NoLinks
    /\ InitNoResolve
    /\ InitCalls
    /\ InitNoFiles
    /\ InitNoResults

NextLock ==
    \E c \in Calls :
        \/ \E path \in SinglePaths : CallExecuteLocked(c, path)
        \/ \E paths \in MultiPaths : CallExecuteLockedMulti(c, paths)
        \/ GetLock(c)
        \/ Acquire(c)
        \/ WakeUp(c)
        \/ AcquireTimeout(c)
        \/ OperationStart(c)
        \/ OperationReturn(c)
        \/ \E e \in OperationErrors : OperationRaise(c, e)

SpecLock == InitLock /\ [][NextLock]_vars

\* ------------------------------------------------------------ FileManager
\* config.MAX_UPLOAD_SIZE
MAX_UPLOAD_SIZE == 20971520

\* the path strings the driver passes: "a" and "/./a" name one file
SpellA == <<"a">>
SpellA2 == <<Sep, ".", Sep, "a">>
SpellB == <<"b">>
Spellings == { SpellA, SpellA2, SpellB }
MovePairs == { <<SpellA, SpellB>>, <<SpellB, SpellA2>> }
Contents == { <<"n">> }

\* Path.with_suffix(suffix + '.tmp'): the name with ".tmp" appended
with_tmp_suffix(p) ==
    [p EXCEPT ![Len(p)] = @ \o <<".", "t", "m", "p">>]

\* the call ends before it reaches the LockManager
EndEarly(c, res) ==
    /\ pc' = [pc EXCEPT ![c] = "done"]
    /\ result' = [result EXCEPT ![c] = res]
    /\ UNCHANGED <<op, sorted_paths>>

\* file_manager.write_file(relative_path, content, user_id, append)
CallWriteFile(c, rel, content, append) ==
    /\ IsNextCall(c)
    /\ LET full_path == resolve_secure_path(rel, SANDBOX_ROOT, links) IN
       IF full_path.err # "none" THEN EndEarly(c, full_path.err)
       ELSE IF Len(content) > MAX_UPLOAD_SIZE THEN EndEarly(c, "ValueError")
       ELSE /\ op' = [op EXCEPT ![c] =
                   [name |-> "write_file", rel |-> <<rel>>, paths |-> <<full_path.path>>,
                    content |-> content, append |-> append,
                    recursive |-> FALSE]]
            /\ sorted_paths' = [sorted_paths EXCEPT ![c] =
                   <<get_lock_key(full_path.path, links)>>]
            /\ pc' = [pc EXCEPT ![c] = "get_lock"]
            /\ UNCHANGED result
    /\ UNCHANGED <<rvars, locks, released, ran, lock_table, fvars, xvars>>

\* a move that takes the lock of its source only
CallMoveSourceOnly(c, source, destination) ==
    /\ IsNextCall(c)
    /\ LET source_path == resolve_secure_path(source, SANDBOX_ROOT, links)
           dest_path == resolve_secure_path(destination, SANDBOX_ROOT, links)
       IN  IF source_path.err # "none" THEN EndEarly(c, source_path.err)
           ELSE IF dest_path.err # "none" THEN EndEarly(c, dest_path.err)
           ELSE /\ op' = [op EXCEPT ![c] =
                       [name |-> "move", rel |-> <<source, destination>>,
                        paths |-> <<source_path.path, dest_path.path>>,
                        content |-> <<>>, append |-> FALSE, recursive |-> FALSE]]
                /\ sorted_paths' = [sorted_paths EXCEPT ![c] =
                       <<get_lock_key(source_path.path, links)>>]
                /\ pc' = [pc EXCEPT ![c] = "get_lock"]
                /\ UNCHANGED result
    /\ UNCHANGED <<rvars, locks, released, ran, lock_table, fvars, xvars>>

\* file_manager.move(source, destination)
CallMove(c, source, destination) ==
    /\ IsNextCall(c)
    /\ LET source_path == resolve_secure_path(source, SANDBOX_ROOT, links)
           dest_path == resolve_secure_path(destination, SANDBOX_ROOT, links)
       IN  IF source_path.err # "none" THEN EndEarly(c, source_path.err)
           ELSE IF dest_path.err # "none" THEN EndEarly(c, dest_path.err)
           ELSE /\ op' = [op EXCEPT ![c] =
                       [name |-> "move", rel |-> <<source, destination>>,
                        paths |-> <<source_path.path, dest_path.path>>,
                        content |-> <<>>, append |-> FALSE, recursive |-> FALSE]]
                /\ sorted_paths' = [sorted_paths EXCEPT ![c] =
                       sorted(<<get_lock_key(source_path.path, links),
                                get_lock_key(dest_path.path, links)>>)]
                /\ pc' = [pc EXCEPT ![c] = "get_lock"]
                /\ UNCHANGED result
    /\ UNCHANGED <<rvars, locks, released, ran, lock_table, fvars, xvars>>

\* the except clause of _write leaves the staging file in place
except_cleanup_keep(f, temp_path) == f

\* the except clause of _write: if temp_path.exists(): temp_path.unlink()
except_cleanup(f, temp_path) ==
    IF exists(f, temp_path) THEN unlink(f, temp_path) ELSE f

\* the points of _write where the file system or the database can fail
WriteFaults == { "none", "read", "stage", "rename", "stat" }

\* a write_file that never appends
new_content_overwrite(f, full_path, content, append) == content

\* what _write stages: the existing content followed by content when
\* appending, content alone otherwise
new_content(f, full_path, content, append) ==
    IF append /\ is_file(f, full_path) THEN f[full_path].content \o content ELSE content

\* a _write that writes the target itself instead of a staging file
write_attempt_in_place(f, full_path, content, append, fault, partial) ==
    LET read_fails == append /\ (fault = "read" \/ ~is_file(f, full_path))
        whole == new_content(f, full_path, content, append)
    IN  IF read_fails THEN [fs |-> f, err |-> "OSError:read"]
        ELSE IF is_dir(f, full_path) THEN [fs |-> f, err |-> "OSError:rename"]
        ELSE IF fault = "stage"
          THEN [fs |-> Put(f, full_path, File(SubSeq(whole, 1, partial))),
                err |-> "OSError:stage"]
        ELSE IF fault = "rename" THEN [fs |-> f, err |-> "OSError:rename"]
        ELSE IF fault = "stat"
          THEN [fs |-> Put(f, full_path, File(whole)), err |-> "OSError:stat"]
        ELSE [fs |-> Put(f, full_path, File(whole)), err |-> "none"]

\* the synchronous part of _write, from the try to the database session,
\* when the step named by fault fails (partial: how much of the staging file
\* was written before a failing write_text stopped).  Gives the file system
\* it leaves and the error it raised, an OSError marked with the step.
write_attempt(f, full_path, content, append, fault, partial) ==
    LET temp_path == with_tmp_suffix(full_path)
        read_fails == append /\ (fault = "read" \/ ~is_file(f, full_path))
        whole == new_content(f, full_path, content, append)
        staged == IF fault = "stage"
                    THEN Put(f, temp_path, File(SubSeq(whole, 1, partial)))
                    ELSE Put(f, temp_path, File(whole))
        rename_fails == fault = "rename" \/ is_dir(staged, full_path)
        replaced == Put(unlink(staged, temp_path), full_path, File(whole))
    IN  IF read_fails THEN [fs |-> except_cleanup(f, temp_path), err |-> "OSError:read"]
        ELSE IF fault = "stage"
          THEN [fs |-> except_cleanup(staged, temp_path), err |-> "OSError:stage"]
        ELSE IF rename_fails
          THEN [fs |-> except_cleanup(staged, temp_path), err |-> "OSError:rename"]
        ELSE IF fault = "stat"
          THEN [fs |-> except_cleanup(replaced, temp_path), err |-> "OSError:stat"]
        ELSE [fs |-> replaced, err |-> "none"]

Snapshot(f, full_path) ==
    [target |-> NodeAt(f, full_path), temp |-> NodeAt(f, with_tmp_suffix(full_path))]

\* _write up to its first await: the existence test, then reading, staging
\* and renaming; on an error the staging file is removed and the lock released
WriteFile(c) ==
    /\ pc[c] = "body"
    /\ op[c].name = "write_file"
    /\ LET full_path == op[c].paths[1] IN
       /\ ran' = [ran EXCEPT ![c] = TRUE]
       /\ before' = [before EXCEPT ![c] = Snapshot(fs, full_path)]
       /\ IF ~exists(fs, full_path)
            THEN /\ Leave(c, "FileNotFoundError", TRUE)
                 /\ after' = [after EXCEPT ![c] = Snapshot(fs, full_path)]
                 /\ UNCHANGED <<fs, touched>>
            ELSE \E fault \in WriteFaults, partial \in 0..1 :
                   LET out == write_attempt(fs, full_path, op[c].content,
                                            op[c].append, fault, partial) IN
                   /\ fault = "read" => op[c].append
                   /\ fault # "stage" => partial = 0
                   /\ fs' = out.fs
                   /\ touched' = [touched EXCEPT ![c] = @ \/ out.fs # fs]
                   /\ IF out.err = "none"
                        THEN /\ pc' = [pc EXCEPT ![c] = "db"]
                             /\ UNCHANGED <<lock_table, released, result, after>>
                        ELSE /\ Leave(c, out.err, TRUE)
                             /\ after' = [after EXCEPT ![c] = Snapshot(out.fs, full_path)]
    /\ UNCHANGED <<rvars, op, sorted_paths, locks, meta, xvars>>

\* the database session of _write commits: the size is recorded and a MODIFY
\* operation is logged; the call returns
WriteFileRecorded(c) ==
    /\ pc[c] = "db"
    /\ op[c].name = "write_file"
    /\ meta' = Append(meta, [type |-> "MODIFY", location |-> op[c].rel[1]])
    /\ Leave(c, "ok", FALSE)
    /\ after' = [after EXCEPT ![c] = Snapshot(fs, op[c].paths[1])]
    /\ UNCHANGED <<rvars, op, sorted_paths, locks, ran, fs, touched, before, xvars>>

\* the database session of _write raises: it rolls back, the except clause
\* of _write removes a file at the staging path and the error propagates
WriteFileRecordFails(c) ==
    /\ pc[c] = "db"
    /\ op[c].name = "write_file"
    /\ fs' = except_cleanup(fs, with_tmp_suffix(op[c].paths[1]))
    /\ touched' = [touched EXCEPT ![c] = @ \/ fs' # fs]
    /\ Leave(c, "DatabaseError", TRUE)
    /\ after' = [after EXCEPT ![c] = Snapshot(fs', op[c].paths[1])]
    /\ UNCHANGED <<rvars, op, sorted_paths, locks, ran, meta, before, xvars>>

\* a move that copies the source node and leaves the source in place
shutil_move_copies(f, source_path, dest_path) == Put(f, dest_path, f[source_path])

\* shutil.move(source, destination): the node and all below it change place
shutil_move(f, source_path, dest_path) ==
    LET moved == { q \in DOMAIN f : Len(q) >= Len(source_path)
                                    /\ SubSeq(q, 1, Len(source_path)) = source_path }
        to(q) == dest_path \o SubSeq(q, Len(source_path) + 1, Len(q))
    IN  [q \in (DOMAIN f \ moved) \cup { to(m) : m \in moved } |->
            IF q \in DOMAIN f \ moved THEN f[q]
            ELSE f[CHOOSE m \in moved : to(m) = q]]

RECURSIVE mkdir_parents(_, _)
\* Path.mkdir(parents=True, exist_ok=True)
mkdir_parents(f, p) ==
    IF p = <<>> \/ exists(f, p) THEN f
    ELSE Put(mkdir_parents(f, SubSeq(p, 1, Len(p) - 1)), p, Dir)

\* the error Path.mkdir(parents=True, exist_ok=True) raises: p is a file, or a
\* path above p is one
mkdir_error(f, p) ==
    IF is_file(f, p) THEN "FileExistsError"
    ELSE IF \E n \in 1..Len(p) : is_file(f, SubSeq(p, 1, n)) THEN "NotADirectoryError"
    ELSE "none"

\* _move: it has no await, so it runs in one piece and the locks are released
Move(c) ==
    /\ pc[c] = "body"
    /\ op[c].name = "move"
    /\ ran' = [ran EXCEPT ![c] = TRUE]
    /\ LET source_path == op[c].paths[1]
           dest_path == op[c].paths[2]
       IN  IF ~exists(fs, source_path)
             THEN /\ Leave(c, "FileNotFoundError", TRUE)
                  /\ UNCHANGED <<fs, touched>>
           ELSE IF exists(fs, dest_path)
             THEN /\ Leave(c, "FileExistsError", TRUE)
                  /\ UNCHANGED <<fs, touched>>
           ELSE /\ fs' = shutil_move(mkdir_parents(fs, SubSeq(dest_path, 1, Len(dest_path) - 1)),
                                     source_path, dest_path)
                /\ touched' = [touched EXCEPT ![c] = TRUE]
                /\ Leave(c, "ok", FALSE)
    /\ UNCHANGED <<rvars, op, sorted_paths, locks, meta, before, after, xvars>>

\* the sandbox when the calls begin: "a" is a file or a directory, "b" and
\* the staging path "a.tmp" may hold files of their own
InitialFiles ==
    LET root == [p \in {SANDBOX_ROOT} |-> Dir] IN
    { Put(root, PathA, File(<<"o">>)),
      Put(Put(root, PathA, File(<<"o">>)), with_tmp_suffix(PathA), File(<<"u">>)),
      Put(Put(root, PathA, File(<<"o">>)), PathB, File(<<"p">>)),
      Put(root, PathA, Dir) }

InitEngine ==
    /\ links = NoLinks
    /\ InitNoResolve
    /\ InitCalls
    /\ fs \in InitialFiles
    /\ meta = <<>>
    /\ touched = [c \in Calls |-> FALSE]
    /\ before = [c \in Calls |-> NoSnapshot]
    /\ after = [c \in Calls |-> NoSnapshot]
    /\ InitNoResults

NextEngine ==
    \E c \in Calls :
        \/ \E rel \in Spellings, content \in Contents, append \in BOOLEAN :
               CallWriteFile(c, rel, content, append)
        \/ \E pair \in MovePairs : CallMove(c, pair[1], pair[2])
        \/ GetLock(c)
        \/ Acquire(c)
        \/ WakeUp(c)
        \/ AcquireTimeout(c)
        \/ WriteFile(c)
        \/ WriteFileRecorded(c)
        \/ WriteFileRecordFails(c)
        \/ Move(c)

SpecEngine == InitEngine /\ [][NextEngine]_vars

\* move calls whose source and destination may name one location
SamePairs == { <<SpellA, SpellA2>>, <<SpellA, SpellB>>, <<SpellB, SpellB>> }

NextSame ==
    \E c \in Calls :
        \/ \E pair \in SamePairs : CallMove(c, pair[1], pair[2])
        \/ GetLock(c)
        \/ Acquire(c)
        \/ WakeUp(c)
        \/ AcquireTimeout(c)
        \/ Move(c)

SpecSame == InitEngine /\ [][NextSame]_vars

\* ---------------------------------------------------------------- reading
\* config.MAX_FILE_SIZE
MAX_FILE_SIZE == 104857600

\* file_manager.read_file(relative_path, "text"): it takes no lock and has no
\* await, so the whole call is one step
ReadFile(c, rel) ==
    /\ IsNextCall(c)
    /\ LET full_path == resolve_secure_path(rel, SANDBOX_ROOT, links)
           refused == full_path.err # "none"
           missing == ~is_file(fs, full_path.path)
           file_size == Len(fs[full_path.path].content)
       IN  /\ op' = [op EXCEPT ![c] = [NoOp EXCEPT !.name = "read_file", !.rel = <<rel>>,
                        !.paths = IF refused THEN <<>> ELSE <<full_path.path>>]]
           /\ result' = [result EXCEPT ![c] =
                  IF refused THEN full_path.err
                  ELSE IF missing THEN "FileNotFoundError"
                  ELSE IF file_size > MAX_FILE_SIZE THEN "ValueError"
                  ELSE "ok"]
           /\ returned' = [returned EXCEPT ![c] =
                  IF ~refused /\ ~missing /\ file_size <= MAX_FILE_SIZE
                    THEN fs[full_path.path].content ELSE @]
    /\ pc' = [pc EXCEPT ![c] = "done"]
    /\ UNCHANGED <<rvars, sorted_paths, locks, released, ran, lock_table, fvars,
                   infolist, validation>>

\* write_file calls and read_file calls, in any interleaving
NextRead ==
    \E c \in Calls :
        \/ \E rel \in Spellings, content \in Contents, append \in BOOLEAN :
               CallWriteFile(c, rel, content, append)
        \/ \E rel \in Spellings : ReadFile(c, rel)
        \/ GetLock(c)
        \/ Acquire(c)
        \/ WakeUp(c)
        \/ AcquireTimeout(c)
        \/ WriteFile(c)
        \/ WriteFileRecorded(c)
        \/ WriteFileRecordFails(c)

SpecRead == InitEngine /\ [][NextRead]_vars

\* write_file calls that append to one file, spelled in two ways
AppendContents == { <<"n">>, <<"m">> }

NextAppend ==
    \E c \in Calls :
        \/ \E rel \in { SpellA, SpellA2 }, content \in AppendContents :
               CallWriteFile(c, rel, content, TRUE)
        \/ GetLock(c)
        \/ Acquire(c)
        \/ WakeUp(c)
        \/ AcquireTimeout(c)
        \/ WriteFile(c)
        \/ WriteFileRecorded(c)
        \/ WriteFileRecordFails(c)

SpecAppend == InitEngine /\ [][NextAppend]_vars

\* --------------------------------------------------------------- archives
\* the largest number of entries of the archives that are validated
MaxEntries == 3

\* config.ZIP_MAX_RATIO, its default
ZIP_MAX_RATIO == 100
\* config.ZIP_MAX_FILES and config.ZIP_MAX_TOTAL_SIZE, which the environment
\* variables of those names set: values that lists of MaxEntries entries of
\* the sizes below reach (the defaults are 1000 entries and 2^31 bytes)
ZIP_MAX_FILES == 2
ZIP_MAX_TOTAL_SIZE == 10000
\* config.ZIP_MAX_RECURSION_DEPTH
ZIP_MAX_RECURSION_DEPTH == 5

ArchiveSecurityError == "ArchiveSecurityError"

\* a zipfile.ZipInfo: the stored name, the declared sizes, and the data
ZipInfo(filename, file_size, compress_size, data) ==
    [filename |-> filename, file_size |-> file_size,
     compress_size |-> compress_size, data |-> data]

\* an entry check that looks at the ratio only
validate_zip_entry_ratio_only(entry) ==
    IF entry.compress_size > 0 /\ entry.file_size > ZIP_MAX_RATIO * entry.compress_size
      THEN ArchiveSecurityError ELSE "none"

\* validate_zip_entry: file_size / compress_size > ZIP_MAX_RATIO is a float
\* comparison; for sizes below 2^46 it is file_size > ZIP_MAX_RATIO * compress_size
validate_zip_entry(entry) ==
    IF entry.compress_size > 0
      THEN IF entry.file_size > ZIP_MAX_RATIO * entry.compress_size
             THEN ArchiveSecurityError ELSE "none"
    ELSE IF entry.file_size > 0 THEN ArchiveSecurityError
    ELSE "none"

\* what validate_zip_file returns, or the error it raised
Validated(file_count, total_uncompressed, total_compressed) ==
    [err |-> "none", file_count |-> file_count,
     total_uncompressed |-> total_uncompressed, total_compressed |-> total_compressed]
Rejected(e) ==
    [err |-> e, file_count |-> 0, total_uncompressed |-> 0, total_compressed |-> 0]

RECURSIVE validate_entries_uncapped(_, _, _, _, _)
\* a loop that counts the entries and adds the sizes up, with no ceiling on
\* the total of the uncompressed sizes
validate_entries_uncapped(entries, i, file_count, total_uncompressed, total_compressed) ==
    IF i > Len(entries)
      THEN Validated(file_count, total_uncompressed, total_compressed)
    ELSE IF file_count + 1 > ZIP_MAX_FILES THEN Rejected(ArchiveSecurityError)
    ELSE IF validate_zip_entry(entries[i]) # "none" THEN Rejected(ArchiveSecurityError)
    ELSE validate_entries_uncapped(entries, i + 1, file_count + 1,
                                   total_uncompressed + entries[i].file_size,
                                   total_compressed + entries[i].compress_size)

RECURSIVE validate_entries(_, _, _, _, _)
\* the loop of validate_zip_file over zf.infolist(), from entry i on
validate_entries(entries, i, file_count, total_uncompressed, total_compressed) ==
    IF i > Len(entries)
      THEN Validated(file_count, total_uncompressed, total_compressed)
    ELSE IF file_count + 1 > ZIP_MAX_FILES THEN Rejected(ArchiveSecurityError)
    ELSE IF validate_zip_entry(entries[i]) # "none" THEN Rejected(ArchiveSecurityError)
    ELSE IF total_uncompressed + entries[i].file_size > ZIP_MAX_TOTAL_SIZE
      THEN Rejected(ArchiveSecurityError)
    ELSE validate_entries(entries, i + 1, file_count + 1,
                          total_uncompressed + entries[i].file_size,
                          total_compressed + entries[i].compress_size)

\* validate_zip_file, given the entries of a well-formed archive
validate_zip_file(entries) == validate_entries(entries, 1, 0, 0, 0)

\* the sizes an entry declares: each side of the ratio ceiling, zero, and
\* the example of 100 compressed bytes for 100000
CompressSizes == { 0, 1, 100 }
FileSizes == { 0, 100, 101, 10000, 10001, 100000 }
Entries ==
    { ZipInfo(<<"a">>, fsz, csz, <<>>) : fsz \in FileSizes, csz \in CompressSizes }

RECURSIVE EntryLists(_)
\* the lists of at most n entries
EntryLists(n) ==
    IF n = 0 THEN { <<>> }
    ELSE LET shorter == EntryLists(n - 1) IN
         shorter \cup { Append(q, e) : q \in { r \in shorter : Len(r) = n - 1 },
                                       e \in Entries }

InitValidate ==
    /\ links = NoLinks
    /\ InitNoResolve
    /\ InitCalls
    /\ InitNoFiles
    /\ returned = [c \in Calls |-> <<>>]
    /\ infolist \in EntryLists(MaxEntries)
    /\ validation = NotYet

\* validate_zip_file(zip_path) on the archive with these entries
ValidateZipFile ==
    /\ validation = NotYet
    /\ validation' = validate_zip_file(infolist)
    /\ UNCHANGED <<rvars, cvars, lock_table, fvars, returned, infolist>>

NextValidate == ValidateZipFile

SpecValidate == InitValidate /\ [][NextValidate]_vars

\* ------------------------------------------------------------ directories
\* a call that hands one resolved path to execute_locked
CallLocked(c, opname, rel, recursive) ==
    /\ IsNextCall(c)
    /\ LET full_path == resolve_secure_path(rel, SANDBOX_ROOT, links) IN
       IF full_path.err # "none" THEN EndEarly(c, full_path.err)
       ELSE /\ op' = [op EXCEPT ![c] =
                   [NoOp EXCEPT !.name = opname, !.rel = <<rel>>,
                                !.paths = <<full_path.path>>, !.recursive = recursive]]
            /\ sorted_paths' = [sorted_paths EXCEPT ![c] =
                   <<get_lock_key(full_path.path, links)>>]
            /\ pc' = [pc EXCEPT ![c] = "get_lock"]
            /\ UNCHANGED result
    /\ UNCHANGED <<rvars, locks, released, ran, lock_table, fvars, xvars>>

\* file_manager.create_directory(relative_path)
CallCreateDirectory(c, rel) == CallLocked(c, "create_directory", rel, FALSE)

\* file_manager.delete_directory(relative_path, recursive)
CallDeleteDirectory(c, rel, recursive) == CallLocked(c, "delete_directory", rel, recursive)

\* _create of create_directory: it has no await and reports nothing
CreateDirectory(c) ==
    /\ pc[c] = "body"
    /\ op[c].name = "create_directory"
    /\ ran' = [ran EXCEPT ![c] = TRUE]
    /\ LET full_path == op[c].paths[1] IN
       IF exists(fs, full_path)
         THEN /\ Leave(c, "FileExistsError", TRUE)
              /\ UNCHANGED <<fs, touched>>
       ELSE IF mkdir_error(fs, full_path) # "none"
         THEN /\ Leave(c, mkdir_error(fs, full_path), TRUE)
              /\ UNCHANGED <<fs, touched>>
       ELSE /\ fs' = mkdir_parents(fs, full_path)
            /\ touched' = [touched EXCEPT ![c] = TRUE]
            /\ Leave(c, "ok", FALSE)
    /\ UNCHANGED <<rvars, op, sorted_paths, locks, meta, before, after, xvars>>

\* a test for children that finds none
any_iterdir_none(f, p) == FALSE

\* any(full_path.iterdir())
any_iterdir(f, p) == iterdir(f, p) # {}

\* the ValueError delete_directory raises for a directory that has a child
DirectoryNotEmpty == "ValueError"

\* _delete of delete_directory: it has no await and reports nothing.  rmdir
\* of a directory that has a child fails with an OSError
DeleteDirectory(c) ==
    /\ pc[c] = "body"
    /\ op[c].name = "delete_directory"
    /\ ran' = [ran EXCEPT ![c] = TRUE]
    /\ LET full_path == op[c].paths[1] IN
       IF ~is_dir(fs, full_path)
         THEN /\ Leave(c, "FileNotFoundError", TRUE)
              /\ UNCHANGED <<fs, touched>>
       ELSE IF op[c].recursive
         THEN /\ fs' = rmtree(fs, full_path)
              /\ touched' = [touched EXCEPT ![c] = TRUE]
              /\ Leave(c, "ok", FALSE)
       ELSE IF any_iterdir(fs, full_path)
         THEN /\ Leave(c, DirectoryNotEmpty, TRUE)
              /\ UNCHANGED <<fs, touched>>
       ELSE IF iterdir(fs, full_path) # {}
         THEN /\ Leave(c, "OSError:rmdir", TRUE)
              /\ UNCHANGED <<fs, touched>>
       ELSE /\ fs' = unlink(fs, full_path)
            /\ touched' = [touched EXCEPT ![c] = TRUE]
            /\ Leave(c, "ok", FALSE)
    /\ UNCHANGED <<rvars, op, sorted_paths, locks, meta, before, after, xvars>>

\* the size of a directory in a record of list_directory
None == "None"

\* the record list_directory makes of the child at q
Item(f, q) ==
    IF is_dir(f, q) THEN [name |-> name(q), type |-> "directory", size |-> None]
    ELSE [name |-> name(q), type |-> "file", size |-> Len(f[q].content)]

\* an order of the records by name alone
ItemLessByName(x, y) == StrLess(x.name, y.name)

\* the order of the key (x["type"] != "directory", x["name"]): False < True
ItemLess(x, y) ==
    \/ x.type = "directory" /\ y.type # "directory"
    \/ (x.type = "directory") = (y.type = "directory") /\ StrLess(x.name, y.name)

RECURSIVE sorted_items(_)
\* sorted(items, key=...), whatever the order in which iterdir gave the items
sorted_items(items) ==
    IF items = {} THEN <<>>
    ELSE LET first == CHOOSE x \in items : \A y \in items \ {x} : ItemLess(x, y)
         IN  <<first>> \o sorted_items(items \ {first})

\* file_manager.list_directory(relative_path): it takes no lock and has no
\* await, so the whole call is one step
ListDirectory(c, rel) ==
    /\ IsNextCall(c)
    /\ LET full_path == resolve_secure_path(rel, SANDBOX_ROOT, links)
           refused == full_path.err # "none"
           listed == ~refused /\ is_dir(fs, full_path.path)
       IN  /\ op' = [op EXCEPT ![c] = [NoOp EXCEPT !.name = "list_directory", !.rel = <<rel>>,
                        !.paths = IF refused THEN <<>> ELSE <<full_path.path>>]]
           /\ result' = [result EXCEPT ![c] =
                  IF refused THEN full_path.err
                  ELSE IF ~listed THEN "NotADirectoryError"
                  ELSE "ok"]
           /\ returned' = [returned EXCEPT ![c] =
                  IF listed
                    THEN sorted_items({ Item(fs, q) : q \in iterdir(fs, full_path.path) })
                    ELSE @]
    /\ pc' = [pc EXCEPT ![c] = "done"]
    /\ UNCHANGED <<rvars, sorted_paths, locks, released, ran, lock_table, fvars,
                   infolist, validation>>

\* ------------------------------------------------------------- extraction
\* the bytes of the archive files of the sandbox and, for each, what
\* zipfile.ZipFile reads from it: a directory entry "c/" and a file entry
\* "a" with one byte; an entry that declares 100000 bytes for 100
ZipPlainBytes == <<"P", "K", "1">>
ZipBombBytes == <<"P", "K", "2">>
ZipPlain == << ZipInfo(<<"c", Sep>>, 0, 0, <<>>), ZipInfo(<<"a">>, 1, 1, <<"d">>) >>
ZipBomb == << ZipInfo(<<"a">>, 100000, 100, <<"d">>) >>
\* one entry more than ZIP_MAX_FILES; declared sizes that add up to more
\* than ZIP_MAX_TOTAL_SIZE
ZipManyBytes == <<"P", "K", "3">>
ZipMany ==
    << ZipInfo(<<"a">>, 1, 1, <<"d">>), ZipInfo(<<"m">>, 1, 1, <<"d">>),
       ZipInfo(<<"u">>, 1, 1, <<"d">>) >>
ZipBigBytes == <<"P", "K", "4">>
ZipBig == << ZipInfo(<<"a">>, 1, 1, <<"d">>), ZipInfo(<<"m">>, 10000, 100, <<"d">>) >>
\* entries stored under the names "../b2", "/s/s/b/u" and "c/../a", after an
\* entry "a"; the last declares 100000 bytes for 100
ZipSlipBytes == <<"P", "K", "5">>
ZipSlip ==
    << ZipInfo(<<"a">>, 1, 1, <<"d">>),
       ZipInfo(<<".", ".", Sep, "b", "2">>, 1, 1, <<"d">>) >>
ZipSlipAbsBytes == <<"P", "K", "6">>
ZipSlipAbs ==
    << ZipInfo(<<"a">>, 1, 1, <<"d">>),
       ZipInfo(<<Sep, "s", Sep, "s", Sep, "b", Sep, "u">>, 0, 0, <<>>) >>
ZipSlipBombBytes == <<"P", "K", "7">>
ZipSlipBomb ==
    << ZipInfo(<<"a">>, 1, 1, <<"d">>),
       ZipInfo(<<"c", Sep, ".", ".", Sep, "a">>, 100000, 100, <<"d">>) >>
\* an entry that declares one byte and whose stream holds two
ZipSpoofBytes == <<"P", "K", "8">>
ZipSpoof == << ZipInfo(<<"a">>, 1, 1, <<"d", "e">>) >>

\* an archive that holds a file of more than half of ZIP_MAX_TOTAL_SIZE, and
\* an archive that holds such a file and the first archive as "n.zip"
MoreThanHalf == (ZIP_MAX_TOTAL_SIZE * 3) \div 5
Filled(n) == [i \in 1..n |-> "d"]
ZipHalfBytes == <<"P", "K", "9">>
ZipHalf ==
    << ZipInfo(<<"g">>, MoreThanHalf, MoreThanHalf \div ZIP_MAX_RATIO,
               Filled(MoreThanHalf)) >>
ZipTwoHalvesBytes == <<"P", "K", "9", "9">>
ZipTwoHalves ==
    << ZipInfo(<<"g">>, MoreThanHalf, MoreThanHalf \div ZIP_MAX_RATIO,
               Filled(MoreThanHalf)),
       ZipInfo(<<"n", ".", "z", "i", "p">>, Len(ZipHalfBytes), Len(ZipHalfBytes),
               ZipHalfBytes) >>

\* archives nested in one another: the one of level 0 holds a file, the one
\* of level k holds the entry "n.zip", which is the archive of level k - 1
MaxChain == ZIP_MAX_RECURSION_DEPTH + 1
ZipChainBytes(k) == <<"P", "K">> \o [i \in 1..(k + 1) |-> "n"]
ZipChain(k) ==
    IF k = 0 THEN << ZipInfo(<<"a">>, 1, 1, <<"d">>) >>
    ELSE << ZipInfo(<<"n", ".", "z", "i", "p">>, Len(ZipChainBytes(k - 1)),
                    Len(ZipChainBytes(k - 1)), ZipChainBytes(k - 1)) >>

\* zipfile.ZipFile(path, 'r') on a file with this content
ZipFile(content) ==
    LET table == { <<ZipPlainBytes, ZipPlain>>, <<ZipBombBytes, ZipBomb>>,
                   <<ZipManyBytes, ZipMany>>, <<ZipBigBytes, ZipBig>>,
                   <<ZipSlipBytes, ZipSlip>>, <<ZipSlipAbsBytes, ZipSlipAbs>>,
                   <<ZipSlipBombBytes, ZipSlipBomb>>, <<ZipSpoofBytes, ZipSpoof>>,
                   <<ZipHalfBytes, ZipHalf>>, <<ZipTwoHalvesBytes, ZipTwoHalves>> }
                 \cup { <<ZipChainBytes(k), ZipChain(k)>> : k \in 0..MaxChain }
    IN  IF \E t \in table : t[1] = content
          THEN [err |-> "none", infolist |-> (CHOOSE t \in table : t[1] = content)[2]]
          ELSE [err |-> "BadZipFile", infolist |-> <<>>]

UpperLetters ==
    <<"A", "B", "C", "D", "E", "F", "G", "H", "I", "J", "K", "L", "M",
      "N", "O", "P", "Q", "R", "S", "T", "U", "V", "W", "X", "Y", "Z">>
LowerLetters ==
    <<"a", "b", "c", "d", "e", "f", "g", "h", "i", "j", "k", "l", "m",
      "n", "o", "p", "q", "r", "s", "t", "u", "v", "w", "x", "y", "z">>

\* str.lower()
lower(str) ==
    [i \in 1..Len(str) |->
        IF \E k \in 1..Len(UpperLetters) : UpperLetters[k] = str[i]
          THEN LowerLetters[CHOOSE k \in 1..Len(UpperLetters) : UpperLetters[k] = str[i]]
          ELSE str[i]]

\* str.endswith(suffix)
endswith(str, suffix) ==
    /\ Len(str) >= Len(suffix)
    /\ SubSeq(str, Len(str) - Len(suffix) + 1, Len(str)) = suffix

\* Path.stem: the name up to its last dot, when that dot is not the first
\* nor the last character
stem(p) ==
    LET nm == name(p)
        dots == { i \in 2..(Len(nm) - 1) : nm[i] = "." }
    IN  IF dots = {} THEN nm
        ELSE SubSeq(nm, 1, (CHOOSE i \in dots : \A j \in dots : j <= i) - 1)

\* the bytes zf.open(entry) hands to the streaming loop before it reports the
\* end of the entry: zipfile never hands over more than the entry declares.
\* The archives modelled store the checksum of these bytes.
read(entry) ==
    IF Len(entry.data) > entry.file_size THEN SubSeq(entry.data, 1, entry.file_size)
    ELSE entry.data

\* the bytes a file holds when the streaming loop has ended: the loop reads
\* chunks of 8192 bytes and raises before it writes the chunk that takes the
\* count of the entry above ZIP_MAX_TOTAL_SIZE
chunk_size == 8192
streamed(data) ==
    IF Len(data) > ZIP_MAX_TOTAL_SIZE
      THEN SubSeq(data, 1, (ZIP_MAX_TOTAL_SIZE \div chunk_size) * chunk_size)
      ELSE data

\* what safe_extract_zip leaves: the file system, the error it raised and
\* the files it extracted
Extraction(f, e, extracted) == [fs |-> f, err |-> e, extracted |-> extracted]

\* a check of the stored name that lets every name pass
zip_slip_never(entry) == FALSE

\* entry_path.is_absolute() or ".." in entry_path.parts
zip_slip(entry) ==
    LET entry_path == ParseParts(Split(entry)) IN
    startswith(entry, <<Sep>>) \/ \E k \in 1..Len(entry_path) : entry_path[k] = DotDot

RECURSIVE safe_extract_zip(_, _, _, _, _)
RECURSIVE extract_entries(_, _, _, _, _, _, _)

\* the loop of safe_extract_zip over zf.namelist(), from entry i on
extract_entries(f, entries, i, dest_path, max_depth, lk, extracted) ==
    IF i > Len(entries) THEN Extraction(f, "none", extracted)
    ELSE
    LET entry == entries[i]
        full_entry_path == PathResolve(PathJoin(dest_path, entry.filename), lk)
        dest_resolved == PathResolve(dest_path, lk)
    IN  IF zip_slip(entry.filename)
          THEN Extraction(f, ArchiveSecurityError, extracted)
        ELSE IF ~startswith(PathStr(full_entry_path), PathStr(dest_resolved))
          THEN Extraction(f, ArchiveSecurityError, extracted)
        ELSE IF validate_zip_entry(entry) # "none"
          THEN Extraction(f, ArchiveSecurityError, extracted)
        ELSE IF endswith(entry.filename, <<Sep>>)
          THEN IF mkdir_error(f, full_entry_path) # "none"
                 THEN Extraction(f, mkdir_error(f, full_entry_path), extracted)
                 ELSE extract_entries(mkdir_parents(f, full_entry_path), entries, i + 1,
                                      dest_path, max_depth, lk, extracted)
        ELSE IF mkdir_error(f, parent(full_entry_path)) # "none"
          THEN Extraction(f, mkdir_error(f, parent(full_entry_path)), extracted)
        ELSE
        LET made == mkdir_parents(f, parent(full_entry_path))
            written == Put(made, full_entry_path, File(streamed(read(entry))))
        IN  IF is_dir(made, full_entry_path)
              THEN Extraction(made, "IsADirectoryError", extracted)
            ELSE IF Len(read(entry)) > ZIP_MAX_TOTAL_SIZE
              THEN Extraction(written, ArchiveSecurityError, extracted)
            ELSE IF endswith(lower(entry.filename), <<".", "z", "i", "p">>)
              THEN LET inner == safe_extract_zip(written, full_entry_path,
                                    Append(parent(full_entry_path), stem(full_entry_path)),
                                    max_depth - 1, lk)
                   IN  IF inner.err # "none"
                         THEN Extraction(inner.fs, inner.err, extracted)
                         ELSE extract_entries(inner.fs, entries, i + 1, dest_path, max_depth,
                                              lk, Append(extracted, full_entry_path)
                                                    \o inner.extracted)
            ELSE extract_entries(written, entries, i + 1, dest_path, max_depth, lk,
                                 Append(extracted, full_entry_path))

\* an extraction that makes the destination directory before it validates
\* the archive
safe_extract_zip_mkdir_first(f, zip_path, destination, max_depth, lk) ==
    IF max_depth <= 0 THEN Extraction(f, ArchiveSecurityError, <<>>)
    ELSE IF is_dir(f, zip_path) THEN Extraction(f, "IsADirectoryError", <<>>)
    ELSE IF ~exists(f, zip_path) THEN Extraction(f, "FileNotFoundError", <<>>)
    ELSE
    LET zf == ZipFile(f[zip_path].content)
        dest_path == resolve_secure_path(PathStr(destination), SANDBOX_ROOT, lk)
    IN  IF dest_path.err # "none" THEN Extraction(f, dest_path.err, <<>>)
        ELSE IF mkdir_error(f, dest_path.path) # "none"
          THEN Extraction(f, mkdir_error(f, dest_path.path), <<>>)
        ELSE IF zf.err # "none"
          THEN Extraction(mkdir_parents(f, dest_path.path), ArchiveSecurityError, <<>>)
        ELSE IF validate_zip_file(zf.infolist).err # "none"
          THEN Extraction(mkdir_parents(f, dest_path.path), ArchiveSecurityError, <<>>)
        ELSE extract_entries(mkdir_parents(f, dest_path.path), zf.infolist, 1,
                             dest_path.path, max_depth, lk, <<>>)

\* safe_extract_zip(zip_path, destination, max_depth): the archive is
\* validated, then the string of destination is resolved once more, the
\* directory made, and the entries written one by one; what was written
\* stays when a later entry fails
safe_extract_zip(f, zip_path, destination, max_depth, lk) ==
    IF max_depth <= 0 THEN Extraction(f, ArchiveSecurityError, <<>>)
    ELSE IF is_dir(f, zip_path) THEN Extraction(f, "IsADirectoryError", <<>>)
    ELSE IF ~exists(f, zip_path) THEN Extraction(f, "FileNotFoundError", <<>>)
    ELSE
    LET zf == ZipFile(f[zip_path].content)
        dest_path == resolve_secure_path(PathStr(destination), SANDBOX_ROOT, lk)
    IN  IF zf.err # "none" THEN Extraction(f, ArchiveSecurityError, <<>>)
        ELSE IF validate_zip_file(zf.infolist).err # "none"
          THEN Extraction(f, ArchiveSecurityError, <<>>)
        ELSE IF dest_path.err # "none" THEN Extraction(f, dest_path.err, <<>>)
        ELSE IF mkdir_error(f, dest_path.path) # "none"
          THEN Extraction(f, mkdir_error(f, dest_path.path), <<>>)
        ELSE extract_entries(mkdir_parents(f, dest_path.path), zf.infolist, 1,
                             dest_path.path, max_depth, lk, <<>>)

\* file_manager.extract_zip(archive_path, destination): it takes no lock, has
\* no await and reports nothing; an ArchiveSecurityError becomes a ValueError
ExtractZip(c, archive_path, destination) ==
    /\ IsNextCall(c)
    /\ LET archive_full_path == resolve_secure_path(archive_path, SANDBOX_ROOT, links)
           dest_full_path == resolve_secure_path(destination, SANDBOX_ROOT, links)
           refused == archive_full_path.err # "none" \/ dest_full_path.err # "none"
           missing == ~exists(fs, archive_full_path.path)
           out == IF refused \/ missing THEN Extraction(fs, "none", <<>>)
                  ELSE safe_extract_zip(fs, archive_full_path.path, dest_full_path.path,
                                        ZIP_MAX_RECURSION_DEPTH, links)
       IN  /\ op' = [op EXCEPT ![c] =
                  [NoOp EXCEPT !.name = "extract_zip", !.rel = <<archive_path, destination>>,
                      !.paths = IF refused THEN <<>>
                                ELSE <<archive_full_path.path, dest_full_path.path>>]]
           /\ result' = [result EXCEPT ![c] =
                  IF refused THEN PermissionError
                  ELSE IF missing THEN "FileNotFoundError"
                  ELSE IF out.err = ArchiveSecurityError THEN "ValueError"
                  ELSE IF out.err # "none" THEN out.err
                  ELSE "ok"]
           /\ fs' = out.fs
           /\ touched' = [touched EXCEPT ![c] = out.fs # fs]
           /\ returned' = [returned EXCEPT ![c] = IF out.err = "none" THEN out.extracted ELSE @]
    /\ pc' = [pc EXCEPT ![c] = "done"]
    /\ UNCHANGED <<rvars, sorted_paths, locks, released, ran, lock_table, meta, before,
                   after, infolist, validation>>

\* the sandbox when the calls begin: the directory "b" is empty, or holds the
\* files "a" and "m" and the directory "c", which holds a file; "p" is an
\* archive
PathBA == << <<"s">>, <<"b">>, <<"a">> >>
PathBC == << <<"s">>, <<"b">>, <<"c">> >>
PathBCA == << <<"s">>, <<"b">>, <<"c">>, <<"a">> >>
PathBM == << <<"s">>, <<"b">>, <<"m">> >>
PathP == << <<"s">>, <<"p">> >>
InitialTrees ==
    LET root == [p \in {SANDBOX_ROOT} |-> Dir] IN
    { Put(Put(root, PathB, Dir), PathP, File(zip)) : zip \in {ZipPlainBytes, ZipBombBytes} }
    \cup
    { Put(Put(Put(Put(Put(Put(root, PathB, Dir), PathBA, File(<<"o">>)), PathBC, Dir),
                  PathBCA, File(<<"o">>)), PathBM, File(<<"u", "u">>)),
          PathP, File(ZipPlainBytes)) }

\* the path strings the driver passes
SpellBC == <<"b", Sep, "c">>
SpellP == <<"p">>
DirSpellings == { SpellB, SpellBC }
ListSpellings == { Dot, SpellB }

InitTree ==
    /\ links = NoLinks
    /\ InitNoResolve
    /\ InitCalls
    /\ fs \in InitialTrees
    /\ meta = <<>>
    /\ touched = [c \in Calls |-> FALSE]
    /\ before = [c \in Calls |-> NoSnapshot]
    /\ after = [c \in Calls |-> NoSnapshot]
    /\ InitNoResults

NextTree ==
    \E c \in Calls :
        \/ \E rel \in DirSpellings : CallCreateDirectory(c, rel)
        \/ \E rel \in DirSpellings, recursive \in BOOLEAN :
               CallDeleteDirectory(c, rel, recursive)
        \/ \E rel \in ListSpellings : ListDirectory(c, rel)
        \/ \E destination \in {SpellB} : ExtractZip(c, SpellP, destination)
        \/ GetLock(c)
        \/ Acquire(c)
        \/ WakeUp(c)
        \/ AcquireTimeout(c)
        \/ CreateDirectory(c)
        \/ DeleteDirectory(c)

SpecTree == InitTree /\ [][NextTree]_vars

\* ------------------------------------------------- extraction of archives
\* the sandbox when the calls begin: an empty directory "b" and one of the
\* archives at "p"
ArchiveBytes ==
    { ZipPlainBytes, ZipBombBytes, ZipManyBytes, ZipBigBytes, ZipSlipBytes,
      ZipSlipAbsBytes, ZipSlipBombBytes, ZipSpoofBytes, ZipTwoHalvesBytes }
    \cup { ZipChainBytes(k) : k \in 0..MaxChain }

InitExtract ==
    /\ links = NoLinks
    /\ InitNoResolve
    /\ InitCalls
    /\ fs \in { Put(Put([p \in {SANDBOX_ROOT} |-> Dir], PathB, Dir), PathP, File(zip)) :
                  zip \in ArchiveBytes }
    /\ meta = <<>>
    /\ touched = [c \in Calls |-> FALSE]
    /\ before = [c \in Calls |-> NoSnapshot]
    /\ after = [c \in Calls |-> NoSnapshot]
    /\ InitNoResults

NextExtract ==
    \E c \in Calls, destination \in {SpellB, SpellBC, Dot} :
        ExtractZip(c, SpellP, destination)

SpecExtract == InitExtract /\ [][NextExtract]_vars

\* ------------------------------------------------------------ create_file
\* config.MAX_FILENAME_LENGTH
MAX_FILENAME_LENGTH == 255

\* str.upper()
upper(str) ==
    [i \in 1..Len(str) |->
        IF \E k \in 1..Len(LowerLetters) : LowerLetters[k] = str[i]
          THEN UpperLetters[CHOOSE k \in 1..Len(LowerLetters) : LowerLetters[k] = str[i]]
          ELSE str[i]]

\* os.path.basename(filename): what follows the last separator
basename(filename) ==
    LET seps == { i \in 1..Len(filename) : filename[i] = Sep } IN
    IF seps = {} THEN filename
    ELSE SubSeq(filename, (CHOOSE i \in seps : \A j \in seps : j <= i) + 1, Len(filename))

invalid_chars == { "<", ">", ":", "\"", "|", "?", "*", "\\" }
reserved_names ==
    { <<"C", "O", "N">>, <<"P", "R", "N">>, <<"A", "U", "X">>, <<"N", "U", "L">> }
      \cup { <<"C", "O", "M", d>> : d \in { "1", "2", "3", "4", "5", "6", "7", "8", "9" } }
      \cup { <<"L", "P", "T", d>> : d \in { "1", "2", "3", "4", "5", "6", "7", "8", "9" } }

\* validate_filename(filename): the base name, or the ValueError raised
validate_filename(filename) ==
    LET safe_name == basename(filename) IN
    IF Len(safe_name) > MAX_FILENAME_LENGTH THEN Raised("ValueError")
    ELSE IF \E i \in 1..Len(safe_name) : safe_name[i] \in invalid_chars
      THEN Raised("ValueError")
    ELSE IF upper(safe_name) \in reserved_names THEN Raised("ValueError")
    ELSE Returned(safe_name)

\* the names callers hand to validate_filename: every string of at most two of
\* NameChars, device names in several spellings, and names about the length limit
NameChars == { "a", ".", Sep, "\\", "<", ">", ":", "\"", "|", "?", "*" }
LongName(n) == [i \in 1..n |-> "a"]
DeviceSpellings ==
    { <<"c", "o", "n">>, <<"C", "o", "n">>, <<"N", "U", "L">>, <<"c", "o", "m", "1">>,
      <<"c", "o", "m", "0">>, <<"L", "p", "t", "9">>, <<"c", "o", "n", "a">>,
      <<"a", Sep, "c", "o", "n">>, <<"c", "o", "n", Sep, "a">> }
FileNames ==
    { <<>> } \cup { <<x>> : x \in NameChars } \cup { <<x, y>> : x, y \in NameChars }
      \cup DeviceSpellings
      \cup { LongName(MAX_FILENAME_LENGTH), LongName(MAX_FILENAME_LENGTH + 1),
             LongName(MAX_FILENAME_LENGTH + 1) \o <<Sep, "a">> }

\* a caller validates a name
ValidateFilename(n) ==
    /\ name_result = NotYet
    /\ name_result' = validate_filename(n)
    /\ UNCHANGED <<given_name, links, relative_path, resolved, reresolved, rpc, cvars,
                   lock_table, fvars, xvars>>

InitName ==
    /\ links = NoLinks
    /\ given_name \in FileNames
    /\ name_result = NotYet
    /\ relative_path = <<>>
    /\ resolved = NotYet
    /\ reresolved = NotYet
    /\ rpc = "idle"
    /\ InitCalls
    /\ InitNoFiles
    /\ InitNoResults

NextName == ValidateFilename(given_name)

SpecName == InitName /\ [][NextName]_vars

\* file_manager.create_file(relative_path, user_id, content)
CallCreateFile(c, rel, content) ==
    /\ IsNextCall(c)
    /\ LET full_path == resolve_secure_path(rel, SANDBOX_ROOT, links) IN
       IF full_path.err # "none" THEN EndEarly(c, full_path.err)
       ELSE IF validate_filename(name(full_path.path)).err # "none"
         THEN EndEarly(c, "ValueError")
       ELSE IF Len(content) > MAX_UPLOAD_SIZE THEN EndEarly(c, "ValueError")
       ELSE /\ op' = [op EXCEPT ![c] =
                   [NoOp EXCEPT !.name = "create_file", !.rel = <<rel>>,
                                !.paths = <<full_path.path>>, !.content = content]]
            /\ sorted_paths' = [sorted_paths EXCEPT ![c] =
                   <<get_lock_key(full_path.path, links)>>]
            /\ pc' = [pc EXCEPT ![c] = "get_lock"]
            /\ UNCHANGED result
    /\ UNCHANGED <<rvars, locks, released, ran, lock_table, fvars, xvars>>

\* a _create that never finds the path taken
create_refused_never(f, full_path) == FALSE

\* if full_path.exists(): raise FileExistsError
create_refused(f, full_path) == exists(f, full_path)

\* the points of _create where the file system can fail
CreateFaults == { "none", "write", "stat" }

\* _create up to its first await: the existence test, the parent directories,
\* the file written in place and its size read; a failing write_text leaves
\* what it had written, and nothing removes it
CreateFile(c) ==
    /\ pc[c] = "body"
    /\ op[c].name = "create_file"
    /\ LET full_path == op[c].paths[1]
           made == mkdir_parents(fs, parent(full_path))
       IN
       /\ ran' = [ran EXCEPT ![c] = TRUE]
       /\ before' = [before EXCEPT ![c] = Snapshot(fs, full_path)]
       /\ IF create_refused(fs, full_path)
            THEN /\ Leave(c, "FileExistsError", TRUE)
                 /\ after' = [after EXCEPT ![c] = Snapshot(fs, full_path)]
                 /\ UNCHANGED <<fs, touched>>
          ELSE IF mkdir_error(fs, parent(full_path)) # "none"
            THEN /\ Leave(c, mkdir_error(fs, parent(full_path)), TRUE)
                 /\ after' = [after EXCEPT ![c] = Snapshot(fs, full_path)]
                 /\ UNCHANGED <<fs, touched>>
          ELSE IF is_dir(made, full_path)
            THEN /\ Leave(c, "IsADirectoryError", TRUE)
                 /\ after' = [after EXCEPT ![c] = Snapshot(fs, full_path)]
                 /\ UNCHANGED <<fs, touched>>
          ELSE \E fault \in CreateFaults, partial \in 0..1 :
                 /\ fault = "write" => partial < Len(op[c].content)
                 /\ fault # "write" => partial = 0
                 /\ fs' = Put(made, full_path,
                              File(IF fault = "write"
                                     THEN SubSeq(op[c].content, 1, partial)
                                     ELSE op[c].content))
                 /\ touched' = [touched EXCEPT ![c] = TRUE]
                 /\ IF fault = "none"
                      THEN /\ pc' = [pc EXCEPT ![c] = "db"]
                           /\ UNCHANGED <<lock_table, released, result, after>>
                      ELSE /\ Leave(c, IF fault = "write" THEN "OSError:write"
                                                           ELSE "OSError:stat", TRUE)
                           /\ after' = [after EXCEPT ![c] = Snapshot(fs', full_path)]
    /\ UNCHANGED <<rvars, op, sorted_paths, locks, meta, xvars>>

\* the database session of _create commits: the File record is added and a
\* CREATE operation is logged; the call returns
CreateFileRecorded(c) ==
    /\ pc[c] = "db"
    /\ op[c].name = "create_file"
    /\ meta' = Append(meta, [type |-> "CREATE", location |-> op[c].rel[1]])
    /\ Leave(c, "ok", FALSE)
    /\ after' = [after EXCEPT ![c] = Snapshot(fs, op[c].paths[1])]
    /\ UNCHANGED <<rvars, op, sorted_paths, locks, ran, fs, touched, before, xvars>>

\* the database session of _create raises, for an unknown user (ValueError)
\* or a failure of the database: it rolls back and the error propagates; the
\* file that was written stays
CreateFileRecordFails(c) ==
    /\ pc[c] = "db"
    /\ op[c].name = "create_file"
    /\ \E e \in { "ValueError", "DatabaseError" } : Leave(c, e, TRUE)
    /\ after' = [after EXCEPT ![c] = Snapshot(fs, op[c].paths[1])]
    /\ UNCHANGED <<rvars, op, sorted_paths, locks, ran, fs, meta, touched, before, xvars>>

\* the path strings the driver passes: "a" and "/./a" name one file, "con" is
\* a reserved name
SpellCon == <<"c", "o", "n">>
CreateSpellings == { SpellA, SpellA2, SpellCon }
CreateContents == { <<"n">>, <<"m">> }

\* the sandbox when the calls begin: empty, or holding the file "a"
InitCreate ==
    /\ links = NoLinks
    /\ InitNoResolve
    /\ InitCalls
    /\ fs \in { [p \in {SANDBOX_ROOT} |-> Dir],
                Put([p \in {SANDBOX_ROOT} |-> Dir], PathA, File(<<"o">>)) }
    /\ meta = <<>>
    /\ touched = [c \in Calls |-> FALSE]
    /\ before = [c \in Calls |-> NoSnapshot]
    /\ after = [c \in Calls |-> NoSnapshot]
    /\ InitNoResults

NextCreate ==
    \E c \in Calls :
        \/ \E rel \in CreateSpellings, content \in CreateContents :
               CallCreateFile(c, rel, content)
        \/ GetLock(c)
        \/ Acquire(c)
        \/ WakeUp(c)
        \/ AcquireTimeout(c)
        \/ CreateFile(c)
        \/ CreateFileRecorded(c)
        \/ CreateFileRecordFails(c)

SpecCreate == InitCreate /\ [][NextCreate]_vars

\* create_file and write_file on files of the directory "b", while the
\* directory is deleted with its content or moved away
SpellBA == <<"b", Sep, "a">>
SpellBU == <<"b", Sep, "u">>

NextAncestor ==
    \E c \in Calls :
        \/ \E content \in Contents : CallCreateFile(c, SpellBU, content)
        \/ \E content \in Contents : CallWriteFile(c, SpellBA, content, FALSE)
        \/ CallDeleteDirectory(c, SpellB, TRUE)
        \/ CallMove(c, SpellB, SpellA)
        \/ GetLock(c)
        \/ Acquire(c)
        \/ WakeUp(c)
        \/ AcquireTimeout(c)
        \/ CreateFile(c)
        \/ CreateFileRecorded(c)
        \/ CreateFileRecordFails(c)
        \/ WriteFile(c)
        \/ WriteFileRecorded(c)
        \/ WriteFileRecordFails(c)
        \/ DeleteDirectory(c)
        \/ Move(c)

SpecAncestor == InitTree /\ [][NextAncestor]_vars

\* ------------------------------------------------------------- create_zip
\* resolve_secure_path(str(path)) on a path that was resolved before (the
\* string is made once and then resolved)
resolve_again(path, lk) ==
    CHOOSE r \in { resolve_secure_path(str, SANDBOX_ROOT, lk) : str \in {PathStr(path)} } :
        TRUE

\* source_path.rglob('*') kept to files: the files anywhere below p
rglob_files(f, p) == { q \in DOMAIN f : Under(q, p) /\ q # p /\ is_file(f, q) }

RECURSIVE st_sizes(_, _)
\* the sum of stat().st_size over a set of files
st_sizes(f, files) ==
    IF files = {} THEN 0
    ELSE LET q == CHOOSE q \in files : TRUE IN
         Len(f[q].content) + st_sizes(f, files \ {q})

RECURSIVE account_sources_unchecked(_, _, _, _, _, _)
\* an accounting that adds up and never compares with the caps
account_sources_unchecked(f, sources, i, total_size, file_count, lk) ==
    IF i > Len(sources) THEN "none"
    ELSE
    LET source_path == resolve_again(sources[i], lk) IN
    IF source_path.err # "none" THEN source_path.err
    ELSE IF is_file(f, source_path.path)
      THEN account_sources_unchecked(f, sources, i + 1,
               total_size + Len(f[source_path.path].content), file_count + 1, lk)
    ELSE IF is_dir(f, source_path.path)
      THEN LET files == rglob_files(f, source_path.path) IN
           account_sources_unchecked(f, sources, i + 1,
               total_size + st_sizes(f, files), file_count + Cardinality(files), lk)
    ELSE ArchiveSecurityError

RECURSIVE account_sources(_, _, _, _, _, _)
\* the loop of safe_create_zip over sources, from source i on: "none", or the
\* error it raises.  The string of each source is resolved once more.  A file
\* named directly is added to the count and the size; the files below a
\* directory are added one by one and the caps are compared after each of
\* them, which, neither sum ever going down, comes to comparing when the
\* last file of a directory that has a file was added.
account_sources(f, sources, i, total_size, file_count, lk) ==
    IF i > Len(sources) THEN "none"
    ELSE
    LET source_path == resolve_again(sources[i], lk) IN
    IF source_path.err # "none" THEN source_path.err
    ELSE IF is_file(f, source_path.path)
      THEN account_sources(f, sources, i + 1,
               total_size + Len(f[source_path.path].content), file_count + 1, lk)
    ELSE IF is_dir(f, source_path.path)
      THEN LET files == rglob_files(f, source_path.path)
               size == total_size + st_sizes(f, files)
               count == file_count + Cardinality(files)
           IN  IF files # {} /\ (count > ZIP_MAX_FILES \/ size > ZIP_MAX_TOTAL_SIZE)
                 THEN ArchiveSecurityError
                 ELSE account_sources(f, sources, i + 1, size, count, lk)
    ELSE ArchiveSecurityError

RECURSIVE in_order(_)
\* the paths of a set, one after the other (by their strings)
in_order(files) ==
    IF files = {} THEN <<>>
    ELSE LET q == CHOOSE q \in files :
                      \A r \in files \ {q} : StrLess(PathStr(q), PathStr(r))
         IN  <<q>> \o in_order(files \ {q})

RECURSIVE zf_write(_, _, _, _)
\* the bytes of the archive: for each source in turn, the name and the
\* content of the file, or those of each file below the directory, named
\* relative to the parent of the directory
zf_write(f, sources, i, lk) ==
    IF i > Len(sources) THEN <<>>
    ELSE
    LET source_path == resolve_again(sources[i], lk).path
        files == in_order(rglob_files(f, source_path))
        member(q) == JoinSep(SubSeq(q, Len(source_path), Len(q))) \o f[q].content
        RECURSIVE members(_)
        members(k) == IF k > Len(files) THEN <<>> ELSE member(files[k]) \o members(k + 1)
    IN  (IF is_file(f, source_path) THEN name(source_path) \o f[source_path].content
         ELSE members(1))
        \o zf_write(f, sources, i + 1, lk)

\* a handler that leaves the destination as the failed write left it
create_cleanup_keep(f, dest_path) == f

\* except Exception: if dest_path.exists(): dest_path.unlink()
create_cleanup(f, dest_path) == IF exists(f, dest_path) THEN unlink(f, dest_path) ELSE f

\* what safe_create_zip leaves: the file system, the error, the path
\* returned, and whether the archive was opened for writing
Created(f, e, p, opened) == [fs |-> f, err |-> e, path |-> p, opened |-> opened]

\* the points where writing the archive can fail
ZipFaults == { "none", "write" }

\* safe_create_zip(sources, destination): the string of destination is
\* resolved once more and its name validated, the sources are accounted for,
\* and then the archive is opened for writing and filled; an error while that
\* goes on removes the destination and becomes an ArchiveSecurityError
safe_create_zip(f, sources, destination, lk, fault) ==
    LET dest_path == resolve_again(destination, lk)
        dest == dest_path.path
        accounted == account_sources(f, sources, 1, 0, 0, lk)
    IN  IF dest_path.err # "none" THEN Created(f, dest_path.err, <<>>, FALSE)
        ELSE IF validate_filename(name(dest)).err # "none"
          THEN Created(f, "ValueError", <<>>, FALSE)
        ELSE IF accounted # "none" THEN Created(f, accounted, <<>>, FALSE)
        ELSE IF is_dir(f, dest) THEN Created(f, "IsADirectoryError", <<>>, FALSE)
        ELSE IF ~is_dir(f, parent(dest)) THEN Created(f, ArchiveSecurityError, <<>>, FALSE)
        ELSE IF fault = "write"
          THEN Created(create_cleanup(Put(f, dest, File(<<"P", "K">>)), dest),
                       ArchiveSecurityError, <<>>, TRUE)
        ELSE Created(Put(f, dest, File(<<"P", "K">> \o zf_write(f, sources, 1, lk))),
                     "none", dest, TRUE)

\* file_manager.create_zip(archive_path, sources, user_id) up to its first
\* await: the paths are resolved and handed to safe_create_zip; the call
\* takes no lock; an ArchiveSecurityError becomes a ValueError
CreateZip(c, archive_path, sources) ==
    /\ IsNextCall(c)
    /\ \E fault \in ZipFaults,
          archive_full_path \in { resolve_secure_path(archive_path, SANDBOX_ROOT, links) },
          source_paths \in { [i \in 1..Len(sources) |->
                                 resolve_secure_path(sources[i], SANDBOX_ROOT, links)] } :
       LET refused == \/ archive_full_path.err # "none"
                      \/ \E i \in 1..Len(sources) : source_paths[i].err # "none"
       IN  \E out \in { IF refused THEN Created(fs, PermissionError, <<>>, FALSE)
                         ELSE safe_create_zip(fs,
                                  [i \in 1..Len(sources) |-> source_paths[i].path],
                                  archive_full_path.path, links, fault) } :
           /\ op' = [op EXCEPT ![c] =
                  [NoOp EXCEPT !.name = "create_zip", !.rel = <<archive_path>> \o sources,
                      !.paths = IF refused THEN <<>>
                                ELSE <<archive_full_path.path>>
                                     \o [i \in 1..Len(sources) |-> source_paths[i].path]]]
           /\ fs' = out.fs
           /\ touched' = [touched EXCEPT ![c] = out.opened]
           /\ IF out.err = "none"
                THEN /\ pc' = [pc EXCEPT ![c] = "db"]
                     /\ returned' = [returned EXCEPT ![c] = out.path]
                     /\ UNCHANGED result
                ELSE /\ pc' = [pc EXCEPT ![c] = "done"]
                     /\ result' = [result EXCEPT ![c] =
                            IF out.err = ArchiveSecurityError THEN "ValueError" ELSE out.err]
                     /\ UNCHANGED returned
    /\ UNCHANGED <<rvars, sorted_paths, locks, released, ran, lock_table, meta, before,
                   after, infolist, validation>>

\* the database session of create_zip commits: a File record with the size
\* of the archive is added and a CREATE operation is logged; the call
\* returns result_path
CreateZipRecorded(c) ==
    /\ pc[c] = "db"
    /\ op[c].name = "create_zip"
    /\ exists(fs, returned[c])
    /\ meta' = Append(meta, [type |-> "CREATE", location |-> op[c].rel[1]])
    /\ result' = [result EXCEPT ![c] = "ok"]
    /\ pc' = [pc EXCEPT ![c] = "done"]
    /\ UNCHANGED <<rvars, op, sorted_paths, locks, released, ran, lock_table, fs, touched,
                   before, after, xvars>>

\* the session raises: a failure of the database, or result_path.stat() when
\* another call has removed the archive meanwhile; the archive is not removed
CreateZipRecordFails(c) ==
    /\ pc[c] = "db"
    /\ op[c].name = "create_zip"
    /\ result' = [result EXCEPT ![c] =
           IF exists(fs, returned[c]) THEN "DatabaseError" ELSE "FileNotFoundError"]
    /\ pc' = [pc EXCEPT ![c] = "done"]
    /\ UNCHANGED <<rvars, op, sorted_paths, locks, released, ran, lock_table, fvars, xvars>>

\* the sandbox when the calls begin: the files "a", "m", "u" and the directory
\* "b" with two files; the same once more below a directory named like the
\* sandbox root; and with that a directory "c" whose one file is a byte
\* longer than ZIP_MAX_TOTAL_SIZE
PathM == << <<"s">>, <<"m">> >>
PathU == << <<"s">>, <<"u">> >>
PathCG == << <<"s">>, <<"c">>, <<"g">> >>
Nested(p) == <<SANDBOX_ROOT[1]>> \o p
ZipTrees ==
    LET small == { <<PathA, File(<<"o">>) >>, <<PathM, File(<<"u", "u">>) >>,
                   <<PathU, File(<<"o">>) >>, <<PathB, Dir>>, <<PathBA, File(<<"o">>) >>,
                   <<PathBM, File(<<"u", "u">>) >> }
        big == { <<SubSeq(PathCG, 1, 2), Dir>>,
                 <<PathCG, File([i \in 1..(ZIP_MAX_TOTAL_SIZE + 1) |-> "x"])>> }
        tree(nodes) ==
            [p \in {SANDBOX_ROOT} \cup { n[1] : n \in nodes } |->
                IF p = SANDBOX_ROOT THEN Dir ELSE (CHOOSE n \in nodes : n[1] = p)[2]]
        nested(nodes) == { <<Nested(n[1]), n[2]>> : n \in nodes }
    IN  { tree(small),
          tree(small \cup nested(small) \cup { <<Nested(SANDBOX_ROOT), Dir>> }),
          tree(small \cup big \cup nested(small \cup big)
                     \cup { <<Nested(SANDBOX_ROOT), Dir>> }) }

\* the arguments the driver passes: the archive "z", and lists of files, of a
\* directory, of both, and of a name that is not there
SpellM == <<"m">>
SpellU == <<"u">>
SpellC == <<"c">>
SpellCG == <<"c", Sep, "g">>
SpellX == <<"x">>
SpellZ == <<"z">>
SourceLists ==
    { <<>>, <<SpellA>>, <<SpellA, SpellM>>, <<SpellA, SpellM, SpellU>>, <<SpellB>>,
      <<SpellA, SpellB>>, <<SpellX>>, <<SpellC>>, <<SpellCG>> }

InitZip ==
    /\ links = NoLinks
    /\ InitNoResolve
    /\ InitCalls
    /\ fs \in ZipTrees
    /\ meta = <<>>
    /\ touched = [c \in Calls |-> FALSE]
    /\ before = [c \in Calls |-> NoSnapshot]
    /\ after = [c \in Calls |-> NoSnapshot]
    /\ InitNoResults

NextZip ==
    \E c \in Calls :
        \/ \E sources \in SourceLists : CreateZip(c, SpellZ, sources)
        \/ CreateZipRecorded(c)
        \/ CreateZipRecordFails(c)

SpecZip == InitZip /\ [][NextZip]_vars

\* ------------------------------------------------- claims on path resolution
\* p is the directory base or lies below it
Contained(p, base) ==
    \/ p = base
    \/ startswith(PathStr(p), PathStr(base) \o <<Sep>>)

\* C1: a path that resolve_secure_path returns is the sandbox root or lies
\* below it; a sibling whose name merely begins with the root's name is
\* rejected.
C1_ResolvedInsideSandbox ==
    (rpc # "idle" /\ resolved.err = "none")
        => Contained(resolved.path, PathResolve(SANDBOX_ROOT, links))

\* the string has a ".." segment
HasParentSegment(s) == \E i \in 1..Len(Split(s)) : Split(s)[i] = DotDot
\* the string begins with a separator
HasAbsolutePrefix(s) == startswith(s, <<Sep>>)

\* C2 as stated: every string with a parent-directory segment or an absolute
\* prefix is refused with PermissionError.
C2_ParentOrAbsoluteRefused ==
    (rpc # "idle" /\ (HasParentSegment(relative_path) \/ HasAbsolutePrefix(relative_path)))
        => resolved.err = PermissionError

RECURSIVE LexWalk(_, _, _)
\* where the segments lead from the directory cur, read left to right without
\* looking at the file system; floor is the depth ".." cannot go above
LexWalk(cur, segs, floor) ==
    IF segs = <<>> THEN cur
    ELSE LET g == Head(segs) IN
         IF g = <<>> \/ g = Dot THEN LexWalk(cur, Tail(segs), floor)
         ELSE IF g = DotDot
           THEN LexWalk(IF Len(cur) > floor THEN SubSeq(cur, 1, Len(cur) - 1) ELSE cur,
                        Tail(segs), floor)
         ELSE LexWalk(Append(cur, g), Tail(segs), floor)

\* the location a caller string names: a string with a leading separator is
\* read relative to the sandbox root and cannot leave it, any other string
\* is read from the sandbox root and may climb to "/"
LexTarget(s) ==
    LexWalk(SANDBOX_ROOT, Split(s),
            IF HasAbsolutePrefix(s) THEN Len(SANDBOX_ROOT) ELSE 0)

RECURSIVE ClimbsFrom(_, _)
\* reading the segments from depth d, some ".." goes above the sandbox root
ClimbsFrom(d, segs) ==
    IF segs = <<>> THEN FALSE
    ELSE LET g == Head(segs) IN
         IF g = <<>> \/ g = Dot THEN ClimbsFrom(d, Tail(segs))
         ELSE IF g = DotDot THEN (d = 0 \/ ClimbsFrom(d - 1, Tail(segs)))
         ELSE ClimbsFrom(d + 1, Tail(segs))

ClimbsAbove(s) == ~HasAbsolutePrefix(s) /\ ClimbsFrom(0, Split(s))

\* C2 (amended): a string is refused with PermissionError when its parent
\* segments climb above the sandbox root to a location whose string does not
\* begin with the root's string; a string that does not climb above the root
\* (its parent segments collapse inside it, or it has an absolute prefix,
\* which is dropped) is accepted and, no symbolic link being involved,
\* resolves to the location it names below the root.
C2_ClimbingRefused ==
    rpc # "idle" =>
        /\ (ClimbsAbove(relative_path)
              /\ ~startswith(PathStr(LexTarget(relative_path)), PathStr(SANDBOX_ROOT)))
             => resolved.err = PermissionError
        /\ (~ClimbsAbove(relative_path) /\ links = NoLinks)
             => resolved = Returned(LexTarget(relative_path))

\* a/../../a climbs above the root and is refused
C2_Witness ==
    /\ rpc = "resolved"
    /\ relative_path = <<"a", Sep, ".", ".", Sep, ".", ".", Sep, "a">>
    /\ ClimbsAbove(relative_path)
    /\ resolved.err = PermissionError

\* C3: resolving the string of a returned path again returns the same path.
C3_ResolveIdempotent ==
    rpc = "reresolved" => reresolved = resolved

\* ------------------------------------------------ claims on the LockManager
\* the call c has the lock of some key
HoldsSomeLock(c) == \E k \in DOMAIN lock_table : lock_table[k].holder = c

\* the call c waits for a lock that the call d has
WaitsFor(c, d) ==
    /\ c # d
    /\ pc[c] = "waiting"
    /\ lock_table[NextKey(c)].holder = d

IsMulti(c) == op[c].name \in {"execute_locked_multi", "move"}
IsSingle(c) == op[c].name \in {"execute_locked", "write_file"}

\* acquisition of the call c timed out: it ended without all of its locks
TimedOut(c) == pc[c] = "done" /\ Len(locks[c]) < Len(sorted_paths[c])

C6_NoLockAfterExecuteLocked ==
    \A c \in Calls : (pc[c] = "done" /\ IsSingle(c)) => ~HoldsSomeLock(c)

\* an execute_locked call whose operation raised has ended
C6_Witness ==
    \E c \in Calls :
        /\ pc[c] = "done"
        /\ op[c].name = "execute_locked"
        /\ ran[c]
        /\ result[c] = "OperationError"
        /\ released[c] = locks[c]
        /\ Len(locks[c]) = 1

InBody(c) == pc[c] \in {"body", "db"}

\* C4: two locked operations that name the same canonical location, however
\* their callers spelled it, use the same lock key and never have their
\* bodies in progress together.
C4_SameLocationSerialized ==
    \A c, d \in Calls :
        (c # d /\ \E i \in DOMAIN op[c].paths, j \in DOMAIN op[d].paths :
                      op[c].paths[i] = op[d].paths[j])
        => /\ \E i \in DOMAIN sorted_paths[c], j \in DOMAIN sorted_paths[d] :
                  sorted_paths[c][i] = sorted_paths[d][j]
           /\ ~(InBody(c) /\ InBody(d))

\* two write_file calls spell the same file differently; one is in its body,
\* the other waits for the lock
C4_Witness ==
    \E c, d \in Calls :
        /\ op[c].name = "write_file" /\ op[c].rel = <<SpellA>>
        /\ op[d].name = "write_file" /\ op[d].rel = <<SpellA2>>
        /\ pc[c] = "db"
        /\ WaitsFor(d, c)

FailedBeforeRename(c) ==
    /\ pc[c] = "done"
    /\ op[c].name = "write_file"
    /\ result[c] \in {"OSError:read", "OSError:stage", "OSError:rename"}

\* C9: when write_file fails before the rename of the staging file onto the
\* target has happened, no file is left at the staging path, the error
\* reaches the caller and the target is as the call found it.
C9_FailureBeforeRename ==
    \A c \in Calls :
        /\ FailedBeforeRename(c) =>
              /\ after[c].temp.kind # "file"
              /\ after[c].target = before[c].target
        /\ (pc[c] = "done" /\ op[c].name = "write_file"
              /\ result[c] = "FileNotFoundError") => after[c] = before[c]

\* an appending write_file failed while writing its staging file
C9_Witness ==
    \E c \in Calls :
        /\ FailedBeforeRename(c)
        /\ result[c] = "OSError:stage"
        /\ op[c].append
        /\ before[c].target = File(<<"o">>)

\* C10: whenever write_file returns an error, the target is as the call
\* found it.
C10_AllOrNothing ==
    \A c \in Calls :
        (pc[c] = "done" /\ op[c].name = "write_file" /\ result[c] # "ok")
            => after[c].target = before[c].target

\* the call has run _write on the file at p
WroteTo(c, p) ==
    /\ op[c].name = "write_file"
    /\ ran[c]
    /\ op[c].paths[1] = p
    /\ before[c].target.kind = "file"

\* the call has renamed its staging file onto the target
Renamed(c) == pc[c] = "db" \/ result[c] \in { "ok", "DatabaseError", "OSError:stat" }

\* what the target held after the write of the call
Written(c) ==
    IF op[c].append THEN before[c].target.content \o op[c].content ELSE op[c].content

\* the whole contents the file at p held before or after a write
Versions(p) ==
    { before[c].target.content : c \in { d \in Calls : WroteTo(d, p) } }
      \cup { Written(c) : c \in { d \in Calls : WroteTo(d, p) /\ Renamed(d) } }

\* C11: in every interleaving of write_file and read_file on one path, what a
\* read_file returns is the whole content the file held before some write or
\* after it, never a part of one or a mixture
C11_ReadsWholeContent ==
    \A r \in Calls :
        (/\ op[r].name = "read_file"
         /\ result[r] = "ok"
         /\ \E c \in Calls : WroteTo(c, op[r].paths[1]))
        => returned[r] \in Versions(op[r].paths[1])

\* a read_file that ran between the rename of a write_file and its database
\* session, and returned what that write had put in place
C11_Witness ==
    \E r, c \in Calls :
        /\ op[r].name = "read_file"
        /\ result[r] = "ok"
        /\ WroteTo(c, op[r].paths[1])
        /\ pc[c] = "db"
        /\ op[c].append
        /\ returned[r] = Written(c)
\* C12: after a successful write_file on an existing file, the file holds the
\* prior content followed by the written content when append is set, and
\* exactly the written content otherwise
C12_WriteResult ==
    \A c \in Calls :
        (/\ op[c].name = "write_file"
         /\ pc[c] = "done"
         /\ result[c] = "ok"
         /\ before[c].target.kind = "file")
        => after[c].target = File(Written(c))

\* an appending write_file has succeeded on a file that had content
C12_Witness ==
    \E c \in Calls :
        /\ op[c].name = "write_file"
        /\ result[c] = "ok"
        /\ op[c].append
        /\ before[c].target = File(<<"o">>)
        /\ after[c].target = File(<<"o", "n">>)
\* the engine operations that change the file system
MutatingOps ==
    { "create_file", "write_file", "delete_file", "create_directory",
      "delete_directory", "move", "create_zip", "extract_zip" }

\* C13: every successful mutating operation reports to the metadata
\* collaborator exactly once and a rejected or failed one reports nothing:
\* there are as many reports as mutating calls that ended well
C13_ReportsOncePerSuccess ==
    Len(meta) = Cardinality({ c \in Calls : /\ op[c].name \in MutatingOps
                                             /\ pc[c] = "done"
                                             /\ result[c] = "ok" })
\* the call holds the lock of the key
HoldsLock(c, k) ==
    /\ k \in DOMAIN lock_table
    /\ lock_table[k].locked
    /\ lock_table[k].holder = c

\* C15: move acquires the locks of its source and of its destination in one
\* execute_locked_multi call and holds both for the whole of its body
C15_MoveHoldsBothLocks ==
    \A c \in Calls :
        (op[c].name = "move" /\ pc[c] = "body")
        => /\ Len(sorted_paths[c]) = 2
           /\ locks[c] = sorted_paths[c]
           /\ \A i \in 1..2 : HoldsLock(c, get_lock_key(op[c].paths[i], links))

\* a move is about to run its body while another call queues for one of
\* its two locks
C15_Witness ==
    \E c, d \in Calls :
        /\ op[c].name = "move"
        /\ pc[c] = "body"
        /\ pc[d] = "waiting"
        /\ HoldsLock(c, NextKey(d))

\* the step in which the body of a move runs
MoveStep(c) == op[c].name = "move" /\ pc[c] = "body" /\ pc'[c] = "done"

\* C16: move fails and leaves the file system unchanged when the source does
\* not exist (NotFound) or the destination exists (AlreadyExists); when it
\* succeeds the source is gone and the destination holds what the source held
C16_MoveOutcome ==
    [][\A c \in Calls :
         MoveStep(c) =>
           LET source_path == op[c].paths[1]
               dest_path == op[c].paths[2]
           IN  /\ ~exists(fs, source_path) =>
                     result'[c] = "FileNotFoundError" /\ fs' = fs
               /\ exists(fs, source_path) /\ exists(fs, dest_path) =>
                     result'[c] = "FileExistsError" /\ fs' = fs
               /\ result'[c] = "ok" =>
                     /\ exists(fs, source_path)
                     /\ ~exists(fs', source_path)
                     /\ \A q \in DOMAIN fs : Under(q, source_path) =>
                          LET to == dest_path \o SubSeq(q, Len(source_path) + 1, Len(q))
                          IN  exists(fs', to) /\ fs'[to] = fs[q]]_vars

\* a move has succeeded: its source is gone and its destination is there
C16_Witness ==
    \E c \in Calls :
        /\ op[c].name = "move"
        /\ result[c] = "ok"
        /\ ~exists(fs, op[c].paths[1])
        /\ exists(fs, op[c].paths[2])
\* the sizes of the entry are beyond the ratio ceiling
OverRatio(entry) ==
    \/ entry.compress_size # 0 /\ entry.file_size > ZIP_MAX_RATIO * entry.compress_size
    \/ entry.compress_size = 0 /\ entry.file_size # 0

\* C20: validate_zip_file rejects (ArchiveSecurityError) every archive that
\* has an entry whose uncompressed size exceeds the ratio ceiling times its
\* nonzero compressed size, or whose compressed size is zero and uncompressed
\* size is not
C20_OverRatioRejected ==
    (/\ validation # NotYet
     /\ \E i \in 1..Len(infolist) : OverRatio(infolist[i]))
    => validation.err = ArchiveSecurityError

\* the archive whose only entry declares 100000 bytes for 100 compressed
\* was rejected
C20_Witness ==
    /\ validation # NotYet
    /\ validation.err = ArchiveSecurityError
    /\ infolist = << ZipInfo(<<"a">>, 100000, 100, <<>>) >>
\* C14: every change an engine operation makes to the file system, those of
\* create_zip and extract_zip included, is made while the call holds the
\* LockManager lock of the resolved paths it was given
C14_MutationsUnderLock ==
    [][\A c \in Calls :
         (pc'[c] # pc[c] /\ fs' # fs) =>
           /\ op'[c].paths # <<>>
           /\ \A i \in 1..Len(op'[c].paths) :
                HoldsLock(c, get_lock_key(op'[c].paths[i], links))]_vars

\* the call is a create_file that went to the LockManager
IsCreate(c) == op[c].name = "create_file"

\* C17 as stated: of the create_file calls on one resolved path at most one
\* succeeds, and every other call fails with FileExistsError and changes
\* nothing
C17_OthersFailAlreadyExists ==
    \A c \in Calls :
        (IsCreate(c) /\ pc[c] = "done")
        => \/ /\ result[c] = "ok"
              /\ \A d \in Calls \ {c} :
                   (IsCreate(d) /\ op[d].paths = op[c].paths) => result[d] # "ok"
           \/ result[c] = "FileExistsError" /\ ~touched[c]

\* C17: of the create_file calls on one resolved path at most one succeeds,
\* and every call whose body finds the path taken fails with FileExistsError
\* and leaves what is there as it was; a call may also fail with a timeout
\* on the lock or with the error of its write or of the database
C17_AtMostOneCreates ==
    /\ \A c, d \in Calls :
         (/\ IsCreate(c) /\ IsCreate(d)
          /\ op[c].paths = op[d].paths
          /\ result[c] = "ok" /\ result[d] = "ok")
         => c = d
    /\ \A c \in Calls :
         (IsCreate(c) /\ ran[c] /\ before[c].target.kind # "absent")
         => /\ pc[c] = "done"
            /\ result[c] = "FileExistsError"
            /\ ~touched[c]
            /\ after[c] = before[c]
    /\ \A c \in Calls :
         (IsCreate(c) /\ pc[c] = "done")
         => result[c] \in { "ok", "FileExistsError", ResourceBusy, "OSError:write",
                            "OSError:stat", "ValueError", "DatabaseError" }

\* two create_file calls on one path with different contents: the first has
\* succeeded, the second was refused and the file holds what the first wrote
C17_Witness ==
    \E c, d \in Calls :
        /\ IsCreate(c) /\ IsCreate(d)
        /\ op[c].paths = op[d].paths
        /\ op[c].rel # op[d].rel
        /\ op[c].content # op[d].content
        /\ result[c] = "ok"
        /\ result[d] = "FileExistsError"
        /\ after[d].target = File(op[c].content)

\* the step in which the body of a delete_directory runs
DeleteDirectoryStep(c) ==
    op[c].name = "delete_directory" /\ pc[c] = "body" /\ pc'[c] = "done"

\* C18: delete_directory without recursive fails with DirectoryNotEmpty and
\* removes nothing when the directory has a child, and removes the directory
\* when it has none; with recursive it removes the directory and all below it
C18_DeleteDirectory ==
    [][\A c \in Calls :
         (DeleteDirectoryStep(c) /\ is_dir(fs, op[c].paths[1])) =>
           LET full_path == op[c].paths[1]
               gone == IF op[c].recursive
                         THEN { q \in DOMAIN fs : Under(q, full_path) }
                         ELSE { full_path }
           IN  IF ~op[c].recursive /\ iterdir(fs, full_path) # {}
                 THEN result'[c] = DirectoryNotEmpty /\ fs' = fs
                 ELSE /\ result'[c] = "ok"
                      /\ DOMAIN fs' = DOMAIN fs \ gone
                      /\ \A q \in DOMAIN fs' : fs'[q] = fs[q]]_vars

\* a delete_directory without recursive was refused and the directory still
\* has its children
C18_Witness ==
    \E c \in Calls :
        /\ op[c].name = "delete_directory"
        /\ ~op[c].recursive
        /\ result[c] = DirectoryNotEmpty
        /\ iterdir(fs, op[c].paths[1]) # {}

\* the step in which a list_directory returns its records
ListDirectoryStep(c) ==
    /\ pc[c] = "idle"
    /\ pc'[c] = "done"
    /\ op'[c].name = "list_directory"
    /\ result'[c] = "ok"

\* C19: list_directory returns one record for each child of the directory,
\* all directories before all files and each group in the order of the
\* names; the record of a file carries its size in bytes
C19_ListingOrdered ==
    [][\A c \in Calls :
         ListDirectoryStep(c) =>
           LET items == returned'[c]
               children == iterdir(fs, op'[c].paths[1])
           IN  /\ Len(items) = Cardinality(children)
               /\ \A q \in children : \E i \in 1..Len(items) :
                    /\ items[i].name = name(q)
                    /\ items[i].type = IF is_dir(fs, q) THEN "directory" ELSE "file"
                    /\ is_file(fs, q) => items[i].size = Len(fs[q].content)
               /\ \A i, j \in 1..Len(items) : i < j =>
                    /\ items[j].type = "directory" => items[i].type = "directory"
                    /\ items[i].type = items[j].type
                         => StrLess(items[i].name, items[j].name)]_vars

\* a listing of a directory that holds the files "a" and "m" and the
\* directory "c": the directory comes first, then the files with their sizes
C19_Witness ==
    \E c \in Calls :
        /\ op[c].name = "list_directory"
        /\ result[c] = "ok"
        /\ Len(returned[c]) = 3
        /\ returned[c][1] = [name |-> <<"c">>, type |-> "directory", size |-> None]
        /\ returned[c][2] = [name |-> <<"a">>, type |-> "file", size |-> 1]
        /\ returned[c][3] = [name |-> <<"m">>, type |-> "file", size |-> 2]

RECURSIVE SumOf(_, _)
\* the sum of the field of that name over the entries
SumOf(entries, field) ==
    IF entries = <<>> THEN 0
    ELSE SumOf(Tail(entries), field)
         + (IF field = "file_size" THEN Head(entries).file_size
            ELSE Head(entries).compress_size)

\* C21: validate_zip_file rejects (ArchiveSecurityError) every archive with
\* more than ZIP_MAX_FILES entries and every archive whose declared
\* uncompressed sizes add up to more than ZIP_MAX_TOTAL_SIZE; for an archive
\* that passes, file_count is the number of entries and total_uncompressed
\* and total_compressed are the sums of the declared sizes over all entries
C21_CountAndTotals ==
    validation # NotYet =>
        /\ Len(infolist) > ZIP_MAX_FILES => validation.err = ArchiveSecurityError
        /\ SumOf(infolist, "file_size") > ZIP_MAX_TOTAL_SIZE
               => validation.err = ArchiveSecurityError
        /\ validation.err = "none" =>
               validation = Validated(Len(infolist), SumOf(infolist, "file_size"),
                                      SumOf(infolist, "compress_size"))

\* an archive of two entries within the limits passed with its count and sums
C21_Witness ==
    /\ infolist = << ZipInfo(<<"a">>, 100, 1, <<>>), ZipInfo(<<"a">>, 101, 100, <<>>) >>
    /\ validation = Validated(2, 201, 101)

\* call c runs extract_zip in this step
ExtractStep(c) == pc[c] = "idle" /\ pc'[c] = "done" /\ op'[c].name = "extract_zip"

\* the entries zipfile reads from the archive that call c is given
GivenEntries(c) == ZipFile(fs[op'[c].paths[1]].content).infolist

\* the declared metadata of the entries is beyond the entry-count, ratio or
\* total-size limit
OverLimits(entries) ==
    \/ Len(entries) > ZIP_MAX_FILES
    \/ \E i \in 1..Len(entries) : OverRatio(entries[i])
    \/ SumOf(entries, "file_size") > ZIP_MAX_TOTAL_SIZE

\* C22: when the declared metadata of the archive given to extract_zip is
\* beyond the entry-count, ratio or total-size limit, the call fails with
\* the ValueError made of ArchiveSecurityError and the file system is as it
\* was: no directory or file has been made or written
C22_RejectedBeforeExtraction ==
    [][\A c \in Calls :
          (/\ ExtractStep(c)
           /\ op'[c].paths # <<>>
           /\ is_file(fs, op'[c].paths[1])
           /\ OverLimits(GivenEntries(c)))
          => /\ result'[c] = "ValueError"
             /\ fs' = fs]_vars

\* the archive whose sizes add up to more than ZIP_MAX_TOTAL_SIZE was refused
\* and the directory the extraction would make is not there
C22_Witness ==
    \E c \in Calls :
        /\ op[c].name = "extract_zip"
        /\ result[c] = "ValueError"
        /\ fs[PathP].content = ZipBigBytes
        /\ DOMAIN fs = {SANDBOX_ROOT, PathB, PathP}

\* the stored name is an absolute path or has a parent-directory segment
EscapingName(s) == HasAbsolutePrefix(s) \/ HasParentSegment(s)

\* the directory that safe_extract_zip extracts into for call c
ExtractionRoot(c) ==
    resolve_secure_path(PathStr(op'[c].paths[2]), SANDBOX_ROOT, links).path

\* q is the directory `root`, a path above it, or the place under it of one
\* of the first n entries or a path above that place
MadeForEntries(q, root, entries, n) ==
    \/ Under(root, q)
    \/ \E j \in 1..n : Under(root \o ParseParts(Split(entries[j].filename)), q)

\* C23: extract_zip fails (the ValueError made of ArchiveSecurityError) on
\* every archive with an entry whose stored name is an absolute path or has
\* a parent-directory segment, whatever sizes the entry declares, and writes
\* nothing for that entry: whatever the step made or changed belongs to the
\* destination directory or to the entries stored before it
C23_ZipSlipRejected ==
    [][\A c \in Calls :
          (/\ ExtractStep(c)
           /\ op'[c].paths # <<>>
           /\ is_file(fs, op'[c].paths[1]))
          => \A i \in 1..Len(GivenEntries(c)) :
                 EscapingName(GivenEntries(c)[i].filename)
                 => /\ result'[c] = "ValueError"
                    /\ \A q \in DOMAIN fs' :
                           NodeAt(fs, q) # fs'[q]
                           => MadeForEntries(q, ExtractionRoot(c), GivenEntries(c), i - 1)
                    /\ DOMAIN fs \subseteq DOMAIN fs']_vars

\* the archive with the entry "../b2" after the entry "a" was refused: the
\* first entry was written and nothing lies beside the destination
C23_Witness ==
    \E c \in Calls :
        /\ op[c].name = "extract_zip"
        /\ op[c].rel[2] = SpellB
        /\ result[c] = "ValueError"
        /\ fs[PathP].content = ZipSlipBytes
        /\ is_file(fs, <<SANDBOX_ROOT[1]>> \o PathBA)
        /\ \A q \in DOMAIN fs : name(q) # <<"b", "2">>

\* C24: whatever an extract_zip(archive_path, destination) step makes or
\* changes, the contents of nested archives included, lies within the
\* directory that resolve_secure_path(destination) denotes
C24_WritesWithinDestination ==
    [][\A c \in Calls :
          (ExtractStep(c) /\ op'[c].paths # <<>>)
          => \A q \in DOMAIN fs' :
                 NodeAt(fs, q) # fs'[q] => Under(q, op'[c].paths[2])]_vars

\* C26: the recursion budget starts at ZIP_MAX_RECURSION_DEPTH and drops by
\* one per nesting level: extract_zip on a chain of archives that needs k
\* nested expansions returns ok for every k up to ZIP_MAX_RECURSION_DEPTH
\* and fails for k = ZIP_MAX_RECURSION_DEPTH + 1
C26_DepthBoundary ==
    [][\A c \in Calls, k \in 0..MaxChain :
          (/\ ExtractStep(c)
           /\ op'[c].paths # <<>>
           /\ is_file(fs, op'[c].paths[1])
           /\ fs[op'[c].paths[1]].content = ZipChainBytes(k))
          => /\ k <= ZIP_MAX_RECURSION_DEPTH => result'[c] = "ok"
             /\ k = ZIP_MAX_RECURSION_DEPTH + 1 => result'[c] = "ValueError"]_vars

\* call c runs create_zip up to the end of safe_create_zip in this step
ZipStep(c) == pc[c] = "idle" /\ pc'[c] # "idle" /\ op'[c].name = "create_zip"

\* the paths that safe_create_zip reads the sources of call c from, and the
\* path it writes the archive to
AccountedSources(c) ==
    [i \in 1..(Len(op'[c].paths) - 1) |-> resolve_again(op'[c].paths[i + 1], links).path]
ArchiveWritten(c) == resolve_again(op'[c].paths[1], links).path

\* the files of one source: the file itself, or the files below the directory
FilesOf(f, p) == IF is_file(f, p) THEN {p} ELSE rglob_files(f, p)

RECURSIVE CountOver(_, _)
\* the number of files over a list of sources
CountOver(f, paths) ==
    IF paths = <<>> THEN 0
    ELSE Cardinality(FilesOf(f, Head(paths))) + CountOver(f, Tail(paths))

RECURSIVE BytesOver(_, _)
\* the bytes of the files over a list of sources
BytesOver(f, paths) ==
    IF paths = <<>> THEN 0
    ELSE st_sizes(f, FilesOf(f, Head(paths))) + BytesOver(f, Tail(paths))

\* the sources are beyond a cap
OverCaps(f, paths) ==
    CountOver(f, paths) > ZIP_MAX_FILES \/ BytesOver(f, paths) > ZIP_MAX_TOTAL_SIZE

\* C27: create_zip fails (the ValueError made of ArchiveSecurityError)
\* whenever the files of its sources, those named directly and those found
\* below source directories, are more than ZIP_MAX_FILES or hold more than
\* ZIP_MAX_TOTAL_SIZE bytes
C27_OverCapsRejected ==
    [][\A c \in Calls :
          (/\ ZipStep(c)
           /\ op'[c].paths # <<>>
           /\ OverCaps(fs, AccountedSources(c)))
          => /\ pc'[c] = "done"
             /\ result'[c] = "ValueError"]_vars

\* C28: when a source of create_zip does not exist or the sources are beyond
\* a cap, the call fails and the file system is as it was: the destination
\* is neither made nor changed
C28_NothingWrittenOnRefusal ==
    [][\A c \in Calls :
          (/\ ZipStep(c)
           /\ op'[c].paths # <<>>
           /\ \/ \E i \in 1..Len(AccountedSources(c)) : ~exists(fs, AccountedSources(c)[i])
              \/ OverCaps(fs, AccountedSources(c)))
          => /\ pc'[c] = "done"
             /\ result'[c] = "ValueError"
             /\ fs' = fs]_vars

\* C29: when create_zip fails after safe_create_zip has opened the archive
\* for writing, no file is left at the path of the archive, and nothing else
\* has changed
C29_PartialArchiveRemoved ==
    [][\A c \in Calls :
          (/\ ZipStep(c)
           /\ touched'[c]
           /\ pc'[c] = "done")
          => /\ result'[c] = "ValueError"
             /\ ~exists(fs', ArchiveWritten(c))
             /\ \A q \in (DOMAIN fs \cup DOMAIN fs') \ {ArchiveWritten(c)} :
                    NodeAt(fs', q) = NodeAt(fs, q)]_vars

\* a create_zip of the file "a" failed while writing where an earlier call
\* had made the archive: the archive is gone
C29_Witness ==
    \E c, d \in Calls :
        /\ op[c].name = "create_zip" /\ op[d].name = "create_zip"
        /\ result[d] = "ok"
        /\ op[c].rel = <<SpellZ, SpellA>>
        /\ touched[c]
        /\ result[c] = "ValueError"
        /\ ~exists(fs, Nested(<<SANDBOX_ROOT[1], SpellZ>>))

\* C30: create_zip called with sources that exist in the sandbox and are
\* within the caps does not fail unless writing fails, returns the path
\* that resolve_secure_path(archive_path) denotes, and the archive is a file
\* at that path
C30_ArchiveAtResolvedDestination ==
    [][\A c \in Calls :
          (/\ ZipStep(c)
           /\ op'[c].paths # <<>>
           /\ \A i \in 2..Len(op'[c].paths) : exists(fs, op'[c].paths[i])
           /\ ~OverCaps(fs, Tail(op'[c].paths))
           /\ ~is_dir(fs, op'[c].paths[1]))
          => /\ pc'[c] = "db" \/ touched'[c]
             /\ pc'[c] = "db" => /\ returned'[c] = op'[c].paths[1]
                                 /\ is_file(fs', op'[c].paths[1])]_vars

\* the characters the contract forbids in a name: the listed ones and the
\* path separators
ForbiddenInName == { "<", ">", ":", "\"", "|", "?", "*", Sep, "\\" }
InvalidName(n) ==
    \/ Len(n) > MAX_FILENAME_LENGTH
    \/ \E i \in 1..Len(n) : n[i] \in ForbiddenInName
    \/ upper(n) \in reserved_names

\* C31: validate_filename fails exactly when the name is too long, holds a
\* forbidden character or a path separator, or is a reserved device name in
\* any case; otherwise it returns the name it was given
C31_FailsExactlyOnInvalidNames ==
    name_result # NotYet =>
        IF InvalidName(given_name) THEN name_result = Raised("ValueError")
        ELSE name_result = Returned(given_name)

\* C32: a multi-lock call never acquires one key twice: the keys it holds
\* are distinct, and the key it is about to acquire or waits for is not one
\* it already holds, also when two of its paths name the same location
C32_EachKeyAcquiredOnce ==
    \A c \in Calls : IsMulti(c) =>
        /\ \A i, j \in DOMAIN locks[c] : i # j => locks[c][i] # locks[c][j]
        /\ pc[c] \in {"get_lock", "acquire", "waiting"} => ~HoldsLock(c, NextKey(c))

\* the keys of the paths a call was given
KeysOf(c) == { get_lock_key(op[c].paths[i], links) : i \in DOMAIN op[c].paths }
\* the sequence of keys goes strictly up, or strictly down
Ascending(ks) == \A i, j \in DOMAIN ks : i < j => StrLess(ks[i], ks[j])
Descending(ks) == \A i, j \in DOMAIN ks : i < j => StrLess(ks[j], ks[i])

\* C33: execute_locked_multi acquires the keys of its paths in strictly
\* ascending order, whatever order the caller listed them in, and when it has
\* ended it has released exactly the locks it held, in descending order
C33_AscendingThenReverse ==
    \A c \in Calls : IsMulti(c) =>
        /\ Ascending(locks[c])
        /\ { locks[c][i] : i \in DOMAIN locks[c] } \subseteq KeysOf(c)
        /\ pc[c] = "body" => { locks[c][i] : i \in DOMAIN locks[c] } = KeysOf(c)
        /\ pc[c] = "done" =>
               /\ Descending(released[c])
               /\ Len(released[c]) = Len(locks[c])
               /\ { released[c][i] : i \in DOMAIN released[c] }
                      = { locks[c][i] : i \in DOMAIN locks[c] }

\* a call that listed three paths in descending order has run its operation
\* and released its three locks
C33_Witness ==
    \E c \in Calls :
        /\ op[c].paths = <<PathC, PathB, PathA>>
        /\ pc[c] = "done"
        /\ ran[c]
        /\ locks[c] = <<PathStr(PathA), PathStr(PathB), PathStr(PathC)>>
        /\ released[c] = <<PathStr(PathC), PathStr(PathB), PathStr(PathA)>>

\* C37: execute_locked ends with the busy error only when the acquisition of
\* its lock timed out: never after its operation was started
C37_BusyOnlyOnAcquisitionTimeout ==
    \A c \in Calls :
        (pc[c] = "done" /\ op[c].name = "execute_locked" /\ result[c] = ResourceBusy)
        => (TimedOut(c) /\ ~ran[c])

\* a call fetches the lock of its next key
GetLockStep(c) == pc[c] = "get_lock" /\ pc'[c] = "acquire"

\* C34: the lock table only grows, and fetching a lock leaves every lock that
\* is already registered as it is: a later reference to a key finds the lock
\* of the first reference, with its holder and its queue
C34_RegistryOnlyGrows ==
    [][/\ DOMAIN lock_table \subseteq DOMAIN lock_table'
       /\ \A c \in Calls : GetLockStep(c) =>
              \A k \in DOMAIN lock_table : lock_table'[k] = lock_table[k]]_vars

\* two execute_locked calls have fetched the lock of one key: one has it, the
\* other is queued for it
C34_Witness ==
    \E c, d \in Calls : \E k \in DOMAIN lock_table :
        /\ c # d
        /\ op[c].name = "execute_locked" /\ op[d].name = "execute_locked"
        /\ HoldsLock(c, k)
        /\ pc[d] = "waiting" /\ NextKey(d) = k
        /\ lock_table[k].waiters = <<d>>

\* C35: a step of a write_file call, whether the call ends well or fails,
\* leaves every path other than its target as it was: no other file changes,
\* appears or goes, a file at the staging path of the target included
C35_OnlyTargetChanges ==
    [][\A c \in Calls :
         (op[c].name = "write_file" /\ pc'[c] # pc[c]) =>
             \A p \in (DOMAIN fs \cup DOMAIN fs') \ { op[c].paths[1] } :
                 NodeAt(fs', p) = NodeAt(fs, p)]_vars

RECURSIVE AppendedInOrder(_)
\* what the calls of S appended, in the order in which their bodies ran: a
\* later body found a longer file
AppendedInOrder(S) ==
    IF S = {} THEN <<>>
    ELSE LET c == CHOOSE x \in S : \A d \in S :
                     Len(before[x].target.content) <= Len(before[d].target.content)
         IN  op[c].content \o AppendedInOrder(S \ {c})

\* C39: when every call was an appending write_file on the file "a" and all
\* have ended, the file holds its initial content followed by what each
\* successful call appended, once each, in the order they had the lock
C39_AppendsInLockOrder ==
    (/\ \A c \in Calls : /\ pc[c] = "done"
                          /\ op[c].name = "write_file"
                          /\ op[c].append
                          /\ op[c].paths = <<PathA>>
     /\ is_file(fs, PathA))
    => fs[PathA].content
          = <<"o">> \o AppendedInOrder({ c \in Calls : result[c] = "ok" })

\* C36: a create_file call that ended with an error has left its path as it
\* found it: no file is there that was not there before the call
C36_FailedCreateLeavesNothing ==
    \A c \in Calls :
        (IsCreate(c) /\ pc[c] = "done" /\ result[c] # "ok")
        => /\ after[c].target = before[c].target
           /\ ~touched[c]

RECURSIVE BytesIn(_, _)
\* the sizes of the files of f at the paths of S, added up
BytesIn(S, f) ==
    IF S = {} THEN 0
    ELSE LET p == CHOOSE q \in S : TRUE IN Len(f[p].content) + BytesIn(S \ {p}, f)

\* C38: the files one extract_zip call has written, those of nested archives
\* included, hold no more than ZIP_MAX_TOTAL_SIZE bytes together
C38_WrittenWithinCap ==
    [][\A c \in Calls : ExtractStep(c) =>
          BytesIn({ p \in DOMAIN fs' : is_file(fs', p) /\ NodeAt(fs, p) # fs'[p] }, fs')
              <= ZIP_MAX_TOTAL_SIZE]_vars

\* the call returns its record: its database session has committed
ReturnsSuccess(c) == pc[c] = "db" /\ pc'[c] = "done" /\ result'[c] = "ok"

\* C40: when a create_file or write_file call returns success, the file is at
\* its resolved path and holds what the call wrote, whatever calls on other
\* resolved paths ran meanwhile
C40_FileThereOnSuccess ==
    [][\A c \in Calls :
         (ReturnsSuccess(c) /\ op[c].name \in {"create_file", "write_file"}) =>
             NodeAt(fs', op[c].paths[1])
                 = File(IF op[c].name = "create_file" THEN op[c].content
                                                      ELSE Written(c))]_vars

====
